---- MODULE Spec2Model ----
(***************************************************************************)
(* smallz4: LZ4 frame encoder with optimal parsing (struct smallz4) and    *)
(* the frame decoder unlz4.                                                *)
(*                                                                         *)
(* The encoder's block loop is modelled one loop iteration per action:     *)
(* the frame header, the start of a block, one iteration of the match      *)
(* finder loop, the rest of the block (cost estimation, serialization,     *)
(* output, window trimming) and the end-of-stream sentinel.  The decoder   *)
(* is modelled one block per action.                                       *)
(*                                                                         *)
(* Scale.  The window constants are scaled down so that inputs of several  *)
(* blocks are within reach: MaxDistance is 2^WindowBits - 1 (65535 in the  *)
(* source, WindowBits = 16) and MaxBlockSize is BlockWindows rings (64 in  *)
(* the source).  The relations the code relies on are kept: MaxDistance+1  *)
(* is a power of two, MaxBlockSize is a multiple of MaxDistance+1 and      *)
(* larger than it, and BlockEndNoMatch < MaxDistance.  MaxSameLetter, the   *)
(* run length above which the long-run shortcuts are taken, is             *)
(* 19 + 255 * (2^WindowBits / 256): 19 + 255 * 256 at the window of the     *)
(* source and 19 at the scaled window, where a block holds such a run.     *)
(* Every other constant has the value of the source.  The decoder's        *)
(* history is scaled with the window: HISTORY_SIZE is 2^WindowBits.        *)
(***************************************************************************)
EXTENDS Integers, Sequences, FiniteSets, TLC

\* ------------------------------------------------------------------ bounds
WindowBits == 4
BlockWindows == 2
\* longest input of the dense family (every length up to it)
MaxLen == 20

\* ------------------------------------------------------- program constants
ShortChainsGreedy == 3
ShortChainsLazy == 6
MinMatch == 4
JustLiteral == 1
BlockEndNoMatch == 12
BlockEndLiterals == 5
HashBits == 20
EndOfChain == 0
MaxLengthCode == 255
HashMultiplier == 48271
MaxDistance == 2^WindowBits - 1
MaxChainLength == 65535
MaxSameLetter == 19 + 255 * (2^WindowBits \div 256)
MaxBlockSizeOdd == BlockWindows * (MaxDistance + 1) - 1
MaxBlockSize == BlockWindows * (MaxDistance + 1)
HISTORY_SIZE == 2^WindowBits
NoLastHash == -1

\* TRUE, and x is evaluated: the loops below evaluate their state before the
\* next iteration (TLC hands arguments on unevaluated)
Now(x) == x = x

Min(x, y) == IF x < y THEN x ELSE y
Max(x, y) == IF x > y THEN x ELSE y

\* ------------------------------------------------------------------ inputs
\* n copies of x, as a sequence
Rep(x, n) == SubSeq([k \in 1..n |-> x], 1, n)

\* element k (from 0) of the array a, and the array with element k set to v
At(a, k) == a[k + 1]
Put(a, k, v) == [a EXCEPT ![k + 1] = v]

\* the first n bytes of the pattern p repeated forever
Cycle(p, n) == SubSeq([k \in 1..n |-> p[((k - 1) % Len(p)) + 1]], 1, n)
\* period patterns; 129 9 0 0 0 9 holds two different four-byte words of equal
\* hash (129 9 0 0 and 0 0 0 9)
Patterns ==
  << <<0>>, <<0, 9>>, <<0, 0, 9>>, <<9, 0, 9, 9, 0>>, <<129, 9, 0, 0, 0, 9>>,
     <<0, 9, 9, 0, 129, 9, 0, 0, 0, 129, 0, 9, 129, 129, 9, 9, 9, 0, 9, 0, 0>> >>

\* inputs made for one case each: a single four-byte match in a block of 13
\* bytes (the compressed payload is as long as the block); two four-byte
\* matches at neighbouring positions after fourteen literals (the literal and
\* the match cost the same at the first of them); repeats at several distances
\* "Hello World. Hello World!"
HelloWorld ==
  <<72, 101, 108, 108, 111, 32, 87, 111, 114, 108, 100, 46, 32>>
    \o <<72, 101, 108, 108, 111, 32, 87, 111, 114, 108, 100, 33>>
\* a run of the byte 0x41 that fills one block: at the scale of the source a
\* run of 1,024 bytes is well inside one block and shorter than MaxSameLetter;
\* here the run is the longest one block holds
RunLength == MaxBlockSize
SelfOverlap == Rep(65, RunLength)
\* four equal bytes at eleven neighbouring positions of a run, and once more
\* five bytes behind the run: every position of the run is a candidate of the
\* last one, and none is longer than the nearest
ManyCandidates ==
  Rep(0, 14) \o <<9>> \o Rep(0, 4) \o <<129, 1, 2, 3, 4, 5, 6, 7>>
Crafted ==
  { HelloWorld, SelfOverlap, ManyCandidates,
    <<0, 0, 0, 0, 0, 9, 129, 9, 9, 0, 129, 129, 0>>,
    <<1, 2, 3, 4, 5, 1, 2, 3, 6, 10, 11, 12, 13, 14, 5, 1, 2, 3, 4>>
      \o <<20, 21, 22, 23, 24, 25, 26, 27, 28, 29, 30, 31, 32>>,
    <<0, 9, 129, 0, 0, 9, 9, 129, 129, 0, 129, 9, 0, 9, 0, 0>>
      \o <<0, 9, 129, 0, 0, 9, 9, 129>> \o <<9, 9, 9, 0, 129, 129, 9, 0>>,
    <<9, 0, 0, 129, 0, 0, 129, 9, 9, 0, 0, 129, 9, 0, 0, 129, 9, 9, 0, 0, 129>>
      \o <<0, 9, 129, 129, 9, 0, 9, 9, 129, 0, 129>> }

\* lengths: every length up to MaxLen, lengths around the block border, and
\* lengths of two and three blocks (a second block shorter than the lookback,
\* a window that ends before the second block begins)
Lens ==
  (0..MaxLen)
  \cup {MaxBlockSize - 1, MaxBlockSize, MaxBlockSize + 1, MaxBlockSize + 11,
        MaxBlockSize + MaxDistance - 1, MaxBlockSize + MaxDistance + 2,
        2 * MaxBlockSize + BlockEndNoMatch + 1}

Inputs ==
  {Cycle(Patterns[p], n) : p \in 1..Len(Patterns), n \in Lens} \cup Crafted

Levels == {0, 1, 3, 6, 9, MaxChainLength}

\* --------------------------------------------------------------- bit tricks
\* x & (2^k - 1) for x >= 0
Low(x, k) == x % (2^k)
\* x >> k for x >= 0
Shr(x, k) == x \div (2^k)

\* ---------------------------------------------------------------- getHash32
\* ((fourBytes * HashMultiplier) mod 2^32) >> (32 - HashBits), masked to HashBits
\* bits; the 32-bit product is computed in 16-bit limbs from the four bytes b0
\* (lowest) .. b3 of the little-endian word
getHash32(b0, b1, b2, b3) ==
  LET t0 == b0 * HashMultiplier
      t1 == b1 * HashMultiplier
      t2 == b2 * HashMultiplier
      t3 == b3 * HashMultiplier
      lowSum == t0 + 256 * (t1 % 256)
      low16 == lowSum % 65536
      carry == (lowSum \div 65536) + (t1 \div 256)
      high16 == (carry + t2 + 256 * (t3 % 256)) % 65536
  IN  Low(high16 * 2^(HashBits - 16) + Shr(low16, 32 - HashBits), HashBits)

\* ------------------------------------------------------------------- state
VARIABLES
  input,          \* the bytes of [it, end) at the call of smallz4::lz4
  entry,          \* the sink b and the cursor ix at the call of smallz4::lz4
  maxChainLength, \* smallz4::maxChainLength
  dictionary,     \* the dictionary argument
  pc,             \* where the program is
  b, ix,          \* the output sink and its write cursor
  it, numRead,    \* input cursor (bytes consumed) and last already read position
  dataZero, dataSize, \* the span data: file position of data[0], and data.size()
  lastBlock, nextBlock, parseDictionary,
  lastHash, previousHash, previousExact,
  owner,          \* history: the position whose iteration last wrote each ring slot
  i, skipMatches, lazyEvaluation, \* the match loop of the current block
  lengths, distances,             \* Matches of the current block
  compressed,     \* the serialized payload of the current block
  blocks,         \* number of blocks written so far
  dit, history, pos, db, dix, dflags, \* unlz4: cursor, ring, sink, header flags
  dread,          \* history: the number of bytes from it up to the last byte read
  derr            \* unlz4: the message of unlz4error, "" while there is none

encVars == <<input, entry, maxChainLength, dictionary, b, ix, it, numRead, dataZero,
             dataSize, lastBlock, nextBlock, parseDictionary, lastHash,
             previousHash, previousExact, owner, i, skipMatches,
             lazyEvaluation, lengths, distances, compressed, blocks>>
decVars == <<dit, history, pos, db, dix, dflags, dread, derr>>
vars == <<pc, encVars, decVars>>

\* ------------------------------------------------------------------- dump
\* fault: dump(span, b, ix) copying to b.data() instead of b.data() + ix
DumpSpanBAtStart(sink, cur, str) ==
  LET n == Len(str)
      size == IF cur + n > Len(sink) THEN Max(Len(sink) * 2, cur + n) ELSE Len(sink)
      grown == sink \o Rep(0, size - Len(sink))
  IN  str \o SubSeq(grown, n + 1, size)

\* dump(span, b, ix): grow the sink to max(2 * size, ix + n), copy, advance
DumpSpanB(sink, cur, str) ==
  LET n == Len(str)
      size == IF cur + n > Len(sink) THEN Max(Len(sink) * 2, cur + n) ELSE Len(sink)
      grown == sink \o Rep(0, size - Len(sink))
  IN  SubSeq(grown, 1, cur) \o str \o SubSeq(grown, cur + n + 1, size)

\* dump(char, b, ix): grow the sink to 128 or twice its size when full, store
DumpCharB(sink, cur, c) ==
  LET size == IF cur = Len(sink)
              THEN (IF Len(sink) = 0 THEN 128 ELSE Len(sink) * 2)
              ELSE Len(sink)
      grown == sink \o Rep(0, size - Len(sink))
  IN  [grown EXCEPT ![cur + 1] = c]

\* fault: the header without its checksum byte
HeaderNoChecksum == <<4, 34, 77, 24, 64, 7 * 16>>

\* the frame header written by compress
Header == <<4, 34, 77, 24, 64, 7 * 16, 223>>

\* ---------------------------------------------------------- window access
\* the input byte at absolute offset p
In(p) == input[p + 1]
\* the four bytes at absolute offset p (std::memcpy(&four, ..., 4))
Four(p) == SubSeq(input, p + 1, p + 4)
HashOf(w) == getHash32(w[1], w[2], w[3], w[4])
\* match4: the four bytes at a and at c are equal
match4(a, c) == Four(a) = Four(c)

LastHashAt(h) == IF h \in DOMAIN lastHash THEN lastHash[h] ELSE NoLastHash
\* fault: lastHash keeps the first position of a hash
SetLastHashFirst(h, v) ==
  [x \in (DOMAIN lastHash) \cup {h} |->
     IF x \in DOMAIN lastHash THEN lastHash[x] ELSE v]
SetLastHash(h, v) ==
  [x \in (DOMAIN lastHash) \cup {h} |-> IF x = h THEN v ELSE lastHash[x]]

\* --------------------------------------------------------- findLongestMatch
\* phase 1: scan backward from atLeast - 4 to current, four bytes at once
RECURSIVE Phase1(_, _, _)
Phase1(phase1, current, totalDistance) ==
  IF phase1 > current /\ match4(phase1, phase1 - totalDistance)
  THEN Phase1(phase1 - 4, current, totalDistance)
  ELSE phase1

\* phase 2, fast loop: scan forward four bytes at once
RECURSIVE Phase2Fast(_, _, _)
Phase2Fast(phase2, stop, totalDistance) ==
  IF phase2 + 4 <= stop /\ match4(phase2, phase2 - totalDistance)
  THEN Phase2Fast(phase2 + 4, stop, totalDistance)
  ELSE phase2

\* fault: phase 2 without its slow loop
Phase2SlowNone(phase2, stop, totalDistance) == phase2

\* phase 2, slow loop: the last 1/2/3 bytes
RECURSIVE Phase2Slow(_, _, _)
Phase2Slow(phase2, stop, totalDistance) ==
  IF phase2 < stop /\ In(phase2) = In(phase2 - totalDistance)
  THEN Phase2Slow(phase2 + 1, stop, totalDistance)
  ELSE phase2

\* fault: the search stops at the first match
StepsAfterOnce(stepsLeft) == 0

\* the stepsLeft counter after a new best match (uint16_t, --stepsLeft)
StepsAfter(stepsLeft) == (stepsLeft + 65535) % 65536

\* the while loop of findLongestMatch; distance is the next chain entry,
\* result <<result_length, result_distance>> (distance -1: not written)
RECURSIVE ChainLoop(_, _, _, _, _, _, _, _)
ChainLoop(current, stop, chain, distance, total, rlen, rdist, stepsLeft) ==
  IF distance = EndOfChain THEN <<rlen, rdist>>
  ELSE
    LET totalDistance == total + distance IN
    IF totalDistance > MaxDistance THEN <<rlen, rdist>>
    ELSE
      LET next == At(chain, Low(current - totalDistance, WindowBits))
          atLeast == current + rlen + 1
      IN
      IF atLeast > stop THEN <<rlen, rdist>>
      ELSE
        LET phase1 == Phase1(atLeast - 4, current, totalDistance) IN
        IF phase1 > current
        THEN ChainLoop(current, stop, chain, next, totalDistance, rlen, rdist, stepsLeft)
        ELSE
          LET phase2 == Phase2Slow(Phase2Fast(atLeast, stop, totalDistance),
                                   stop, totalDistance)
              left == StepsAfter(stepsLeft)
          IN
          IF left = 0 \/ ~Now(phase2) THEN <<phase2 - current, totalDistance>>
          ELSE ChainLoop(current, stop, chain, next, totalDistance,
                         phase2 - current, totalDistance, left)

\* fault: the search stops one byte before end
findLongestMatchBeforeEnd(position, end, chain) ==
  ChainLoop(position, end - 1, chain, At(chain, Low(position, WindowBits)), 0,
            JustLiteral, -1, maxChainLength)

\* fault: the search compares one byte beyond end
findLongestMatchPastEnd(position, end, chain) ==
  ChainLoop(position, end + 1, chain, At(chain, Low(position, WindowBits)), 0,
            JustLiteral, -1, maxChainLength)

\* findLongestMatch(data, pos, begin, end, chain, result_length, result_distance)
findLongestMatch(position, end, chain) ==
  ChainLoop(position, end, chain, At(chain, Low(position, WindowBits)), 0,
            JustLiteral, -1, maxChainLength)

\* ----------------------------------------------- hash chain walk (compress)
\* fault: the most recent position of the same hash is taken as an exact
\* match, collisions are not skipped
HashWalkFirstHit(four, hash, lastHashMatch, distance, prevHash) ==
  <<TRUE, distance>>

\* the while (true) loop that skips hash collisions; result <<found, distance>>
RECURSIVE HashWalk(_, _, _, _, _)
HashWalk(four, hash, lastHashMatch, distance, prevHash) ==
  LET currentFour == Four(lastHashMatch) IN
  IF currentFour = four THEN <<TRUE, distance>>
  ELSE IF hash # HashOf(currentFour) THEN <<FALSE, distance>>
  ELSE
    LET next == At(prevHash, Low(lastHashMatch, WindowBits)) IN
    IF next = EndOfChain THEN <<FALSE, distance>>
    ELSE IF distance + next > MaxDistance THEN <<FALSE, distance + next>>
    ELSE IF lastHashMatch - next < dataZero THEN <<FALSE, distance + next>>
    ELSE HashWalk(four, hash, lastHashMatch - next, distance + next, prevHash)

\* ------------------------------------------------------------ estimateCosts
\* fault: the length bytes of the literals are not counted
LiteralBumpNever(numLiterals) == 0

\* the extra byte a literal costs when the run reaches a length that needs one
\* more length byte
LiteralBump(numLiterals) ==
  IF numLiterals >= 15
     /\ (numLiterals = 15
         \/ (numLiterals >= 15 + MaxLengthCode
             /\ (numLiterals - 15) % MaxLengthCode = 0))
  THEN 1 ELSE 0

\* fault: a match replaces the cheapest choice so far only when it is cheaper,
\* not when it costs the same
RECURSIVE TryLengthsStrict(_, _, _, _, _, _, _, _)
TryLengthsStrict(length, match_length, cost, at, minCost, bestLength, extraCost, nextCostIncrease) ==
  IF length > match_length THEN <<minCost, bestLength>>
  ELSE
    LET currentCost == At(cost, at + length) + extraCost
        better == currentCost < minCost
        bump == length = nextCostIncrease
        nextExtra == IF bump THEN extraCost + 1 ELSE extraCost
        nextIncrease == IF bump THEN nextCostIncrease + MaxLengthCode
                        ELSE nextCostIncrease
    IN  IF better /\ Now(<<nextExtra, nextIncrease>>)
        THEN TryLengthsStrict(length + 1, match_length, cost, at, currentCost,
                              length, nextExtra, nextIncrease)
        ELSE TryLengthsStrict(length + 1, match_length, cost, at, minCost,
                              bestLength, nextExtra, nextIncrease)

\* fault: a match replaces a match only when it is cheaper, and a literal also
\* when it costs the same
RECURSIVE TryLengthsShortest(_, _, _, _, _, _, _, _)
TryLengthsShortest(length, match_length, cost, at, minCost, bestLength, extraCost, nextCostIncrease) ==
  IF length > match_length THEN <<minCost, bestLength>>
  ELSE
    LET currentCost == At(cost, at + length) + extraCost
        better == \/ currentCost < minCost
                  \/ (currentCost = minCost /\ bestLength = JustLiteral)
        bump == length = nextCostIncrease
        nextExtra == IF bump THEN extraCost + 1 ELSE extraCost
        nextIncrease == IF bump THEN nextCostIncrease + MaxLengthCode
                        ELSE nextCostIncrease
    IN  IF better /\ Now(<<nextExtra, nextIncrease>>)
        THEN TryLengthsShortest(length + 1, match_length, cost, at, currentCost,
                                length, nextExtra, nextIncrease)
        ELSE TryLengthsShortest(length + 1, match_length, cost, at, minCost,
                                bestLength, nextExtra, nextIncrease)

\* the core optimization loop: try all match lengths, short ones first;
\* result <<minCost, bestLength>>
RECURSIVE TryLengths(_, _, _, _, _, _, _, _)
TryLengths(length, match_length, cost, at, minCost, bestLength, extraCost, nextCostIncrease) ==
  IF length > match_length THEN <<minCost, bestLength>>
  ELSE
    LET currentCost == At(cost, at + length) + extraCost
        better == currentCost <= minCost
        bump == length = nextCostIncrease
        nextExtra == IF bump THEN extraCost + 1 ELSE extraCost
        nextIncrease == IF bump THEN nextCostIncrease + MaxLengthCode
                        ELSE nextCostIncrease
    IN  IF better /\ Now(<<nextExtra, nextIncrease>>)
        THEN TryLengths(length + 1, match_length, cost, at, currentCost, length,
                        nextExtra, nextIncrease)
        ELSE TryLengths(length + 1, match_length, cost, at, minCost, bestLength,
                        nextExtra, nextIncrease)

\* the backward loop; result [lengths, cost]
RECURSIVE CostLoop(_, _, _, _, _)
CostLoop(at, cost, lens, dists, numLiterals0) ==
  IF at < 0 THEN [lengths |-> lens, cost |-> cost]
  ELSE
    LET numLiterals == numLiterals0 + 1
        literalCost == At(cost, at + 1) + JustLiteral + LiteralBump(numLiterals)
        match_length == At(lens, at)
        match_distance == At(dists, at)
        best ==
          IF match_length >= MaxSameLetter /\ match_distance = 1
          THEN <<At(cost, at + match_length) + 1 + 2 + 1
                   + ((match_length - 19) \div 255),
                 match_length>>
          ELSE TryLengths(MinMatch, match_length, cost, at, literalCost,
                          JustLiteral, 1 + 2, 18)
        nextCost == Put(cost, at, best[1])
        nextLens == Put(lens, at, best[2])
    IN  IF best[2] # JustLiteral /\ Now(<<nextCost, nextLens>>)
        THEN CostLoop(at - 1, nextCost, nextLens, dists, 0)
        ELSE CostLoop(at - 1, nextCost, nextLens, dists, numLiterals)

\* estimateCosts(matches)
estimateCosts(lens, dists) ==
  LET blockEnd == Len(lens) IN
  CostLoop(blockEnd - (1 + BlockEndLiterals), Rep(0, blockEnd),
           lens, dists, BlockEndLiterals)

\* -------------------------------------------------------- selectBestMatches
\* fault: no last byte behind a 255 when nothing remains
RECURSIVE LengthBytesNoZero(_)
LengthBytesNoZero(n) ==
  IF n > MaxLengthCode
  THEN <<MaxLengthCode>> \o LengthBytesNoZero(n - MaxLengthCode)
  ELSE <<n>>

\* a length above what the token holds: 255 until the remainder is below 255,
\* then the last byte
RECURSIVE LengthBytes(_)
LengthBytes(n) ==
  IF n >= MaxLengthCode THEN <<MaxLengthCode>> \o LengthBytes(n - MaxLengthCode)
  ELSE <<n>>

\* token and literal-length bytes of one sequence
TokenBytes(matchLength, numLiterals) ==
  LET token == IF matchLength < 15 THEN matchLength ELSE 15 IN
  IF numLiterals < 15 THEN <<token + 16 * numLiterals>>
  ELSE <<token + 240>> \o LengthBytes(numLiterals - 15)

\* offset bytes (little endian) and match-length bytes of one sequence
MatchBytes(matchLength, distance) ==
  <<distance % 256, Low(distance \div 256, 8)>>
  \o (IF matchLength >= 15 THEN LengthBytes(matchLength - 15) ELSE <<>>)

\* the literals data[from .. from + n), block-relative, of the block at base
Literals(base, from, n) == SubSeq(input, base + from + 1, base + from + n)

\* the loop over the block; base is the absolute offset of the block's begin.
\* The iterations that count one literal and continue are taken together: stop
\* is the first offset that holds a match, n_matches when the literals reach
\* the end of the block (the last token)
RECURSIVE SelectLoop(_, _, _, _, _, _, _)
SelectLoop(offset, n_matches, lens, dists, base, run, result) ==
  IF offset >= n_matches THEN result
  ELSE
    LET ahead == {q \in offset..(n_matches - 1) : At(lens, q) > JustLiteral}
        stop == IF ahead = {} THEN n_matches
                ELSE CHOOSE q \in ahead : \A r \in ahead : q <= r
        lastToken == stop = n_matches
        literalsFrom == IF stop > offset /\ run[2] = 0 THEN offset ELSE run[1]
        numLiterals == run[2] + (stop - offset)
        length == IF lastToken THEN JustLiteral ELSE At(lens, stop)
        distance == IF lastToken THEN 0 ELSE At(dists, stop)
        nextOffset == IF lastToken THEN n_matches ELSE stop + length
        matchLength == IF lastToken THEN 0 ELSE length - MinMatch
        head == result \o TokenBytes(matchLength, numLiterals)
                  \o Literals(base, literalsFrom, numLiterals)
        next == head \o MatchBytes(matchLength, distance)
    IN
    IF (numLiterals > 0 /\ lastToken) \/ ~Now(next) THEN head
    ELSE SelectLoop(nextOffset, n_matches, lens, dists, base,
                    <<literalsFrom, 0>>, next)

\* selectBestMatches(matches, data, result)
selectBestMatches(lens, dists, base) ==
  SelectLoop(0, Len(lens), lens, dists, base, <<0, 0>>, <<>>)

\* ------------------------------------------------------------------ compress
uncompressed == maxChainLength = 0
isGreedy == maxChainLength <= ShortChainsGreedy
isLazy == ~isGreedy /\ maxChainLength <= ShortChainsLazy
blockSize == nextBlock - lastBlock
n_matches == IF uncompressed THEN 0 ELSE blockSize

\* data[k] of the span is inside it (std::span::operator[] requires k < size(),
\* k a size_t)
InSpan(k) == k >= 0 /\ k < dataSize

\* fault: the match finder's loop runs one position further
MatchLoopRunsLate == i + BlockEndNoMatch <= blockSize + 1 /\ ~uncompressed

\* the condition of the match finder's for loop
MatchLoopRuns == i + BlockEndNoMatch <= blockSize /\ ~uncompressed

\* one iteration of the for loop at block-relative position i: the new values
\* of the index and of the match table
MatchIteration ==
  LET position == i + lastBlock
      same == [lastHash |-> lastHash, previousHash |-> previousHash,
               previousExact |-> previousExact, lengths |-> lengths,
               distances |-> distances, skipMatches |-> skipMatches,
               lazyEvaluation |-> lazyEvaluation]
  IN
  IF i > 0 /\ In(position) = In(position - 1) /\ At(distances, i - 1) = 1
     /\ At(lengths, i - 1) > MaxSameLetter
  THEN [same EXCEPT !.distances = Put(distances, i, 1),
                    !.lengths = Put(lengths, i, At(lengths, i - 1) - 1)]
  ELSE
    LET four == Four(position)
        hash == HashOf(four)
        lastHashMatch == LastHashAt(hash)
        indexed == [same EXCEPT !.lastHash = SetLastHash(hash, position)]
        prevIndex == Low(i + MaxDistance + 1, WindowBits)
        distance == position - lastHashMatch
        noChain ==
          [indexed EXCEPT
             !.previousHash = Put(previousHash, prevIndex, EndOfChain),
             !.previousExact = Put(previousExact, prevIndex, EndOfChain)]
    IN
    IF lastHashMatch = NoLastHash \/ distance > MaxDistance THEN noChain
    ELSE
      LET prevHash == Put(previousHash, prevIndex, distance)
          walk == HashWalk(four, hash, lastHashMatch, distance, prevHash)
          chained == [indexed EXCEPT !.previousHash = prevHash]
      IN
      IF ~walk[1]
      THEN [chained EXCEPT
              !.previousExact = Put(previousExact, prevIndex, EndOfChain)]
      ELSE
        LET prevExact == Put(previousExact, prevIndex, walk[2])
            exact == [chained EXCEPT !.previousExact = prevExact]
        IN
        IF i < 0 THEN exact
        ELSE IF skipMatches > 0 /\ ~lazyEvaluation
        THEN [exact EXCEPT !.skipMatches = skipMatches - 1]
        ELSE
          LET skip == IF skipMatches > 0 THEN skipMatches - 1 ELSE skipMatches
              found == findLongestMatch(position, nextBlock - BlockEndLiterals,
                                        prevExact)
              searched ==
                [exact EXCEPT
                   !.lazyEvaluation = (IF skipMatches > 0 THEN FALSE
                                       ELSE lazyEvaluation),
                   !.skipMatches = skip,
                   !.lengths = Put(lengths, i, found[1]),
                   !.distances = IF found[2] = -1 THEN distances
                                 ELSE Put(distances, i, found[2])]
          IN
          IF (isLazy \/ isGreedy) /\ found[1] # JustLiteral
          THEN [searched EXCEPT !.lazyEvaluation = (skip = 0),
                                !.skipMatches = found[1]]
          ELSE searched

\* the hash chain walk of this iteration reads data[lastHashMatch - dataZero]
\* outside the span
WalkOutsideSpan ==
  LET position == i + lastBlock
      lastHashMatch == LastHashAt(HashOf(Four(position)))
  IN  /\ ~(i > 0 /\ In(position) = In(position - 1) /\ At(distances, i - 1) = 1
           /\ At(lengths, i - 1) > MaxSameLetter)
      /\ lastHashMatch # NoLastHash
      /\ position - lastHashMatch <= MaxDistance
      /\ ~InSpan(lastHashMatch - dataZero)

\* "last bytes are always literals": lengths[k] = JustLiteral for k in i .. n - 1
TailLiterals ==
  LET from == Max(i, 0) IN
  SubSeq(lengths, 1, from) \o Rep(JustLiteral, Len(lengths) - from)

\* the match table the block is serialized from
Parsed ==
  IF n_matches > BlockEndNoMatch /\ maxChainLength > ShortChainsGreedy
  THEN estimateCosts(TailLiterals, distances).lengths
  ELSE TailLiterals

\* fault: the size prefix without the flag of a raw block
SizeBytesNoRawFlag(numBytes, raw) ==
  <<numBytes % 256, Shr(numBytes, 8) % 256, Shr(numBytes, 16) % 256,
    Shr(numBytes, 24) % 128>>

\* the four bytes of the block size prefix, little endian, bit 31 set for raw
SizeBytes(numBytes, raw) ==
  <<numBytes % 256, Shr(numBytes, 8) % 256, Shr(numBytes, 16) % 256,
    (Shr(numBytes, 24) % 128) + (IF raw THEN 128 ELSE 0)>>

\* the sink after the four dump(char) calls of a size prefix at cursor cur
DumpSize(sink, cur, sz) ==
  DumpCharB(DumpCharB(DumpCharB(DumpCharB(sink, cur, sz[1]), cur + 1, sz[2]),
                      cur + 2, sz[3]), cur + 3, sz[4])

\* the input bytes [from, from + n)
InputBytes(from, n) == SubSeq(input, from + 1, from + n)

\* -------------------------------------------------------------------- unlz4
\* The decoder state is a record st: it (bytes of the frame consumed), pos and
\* history (the ring), b and ix (the output sink), err (the fatal error, or "").
\* f is the frame, the bytes of [it, end).

\* uint32_t, scaled as the history is: 2^(2 * WindowBits) stands for 2^32 as
\* 2^WindowBits stands for 2^16
Word == 2^(2 * WindowBits)

\* the byte at offset k of the memory f that begins at it.  unlz4 never
\* compares it with end; a byte outside f is outside the memory modelled, its
\* value is not used: the step that reads it ends in the trap
Deref(f, k) == IF k >= 0 /\ k < Len(f) THEN f[k + 1] ELSE 0

\* the frame byte at the cursor (*it)
Cur(f, st) == Deref(f, st.it)

\* history[pos++] = c, and the flush of the full ring to the sink when the
\* caller's loop has one
Store(st, c, flush) ==
  LET h == Put(st.history, st.pos, c) IN
  IF flush /\ st.pos + 1 = HISTORY_SIZE
  THEN [st EXCEPT !.history = h, !.pos = 0,
                  !.b = DumpSpanB(st.b, st.ix, h),
                  !.ix = st.ix + HISTORY_SIZE]
  ELSE [st EXCEPT !.history = h, !.pos = st.pos + 1]

\* a length that continues in more bytes: add each byte, stop after the first
\* byte that is not 255; the sum is a uint32_t; result <<length, cursor>>
RECURSIVE ReadLength(_, _, _)
ReadLength(f, cursor, length) ==
  LET current == Deref(f, cursor) IN
  IF current = 255 THEN ReadLength(f, cursor + 1, (length + current) % Word)
  ELSE <<(length + current) % Word, cursor + 1>>

\* copy n literals from the frame to the history.  The fast loop has no
\* flush: when its cursor has left history[] the next store is outside the
\* array (st.outside).  The copy is followed up to the end of the memory
\* modelled
RECURSIVE CopyLiterals(_, _, _, _)
CopyLiterals(f, st, n, flush) ==
  IF n = 0 \/ st.pos >= HISTORY_SIZE \/ st.it >= Len(f) \/ ~Now(st)
  THEN IF n = 0 THEN st
       ELSE IF st.pos >= HISTORY_SIZE THEN [st EXCEPT !.outside = TRUE]
       ELSE [st EXCEPT !.it = st.it + 1]
  ELSE CopyLiterals(f, Store([st EXCEPT !.it = st.it + 1], Cur(f, st), flush),
                    n - 1, flush)

\* fault: the overlapping copy does not advance its source
RECURSIVE CopyBytesSameByte(_, _, _)
CopyBytesSameByte(st, referencePos, n) ==
  IF n = 0 \/ ~Now(st) THEN st
  ELSE CopyBytesSameByte(Store(st, At(st.history, referencePos), FALSE),
                         referencePos, n - 1)

\* the overlapping copy: history[pos++] = history[referencePos++], byte by byte
RECURSIVE CopyBytes(_, _, _)
CopyBytes(st, referencePos, n) ==
  IF n = 0 \/ st.pos >= HISTORY_SIZE \/ referencePos >= HISTORY_SIZE \/ ~Now(st)
  THEN [st EXCEPT !.outside = st.outside \/ n > 0]
  ELSE CopyBytes(Store(st, At(st.history, referencePos), FALSE),
                 referencePos + 1, n - 1)

\* the copy when the read or the write wraps around the end of history[]
RECURSIVE CopyWrapping(_, _, _)
CopyWrapping(st, referencePos, n) ==
  IF n = 0 \/ ~Now(st) THEN st
  ELSE CopyWrapping(Store(st, At(st.history, referencePos), TRUE),
                    (referencePos + 1) % HISTORY_SIZE, n - 1)

\* memcpy(history + pos, history + referencePos, matchLength), regions
\* disjoint; a region that ends behind history[] is outside the array
CopyDisjoint(st, referencePos, n) ==
  IF st.pos + n > HISTORY_SIZE \/ referencePos + n > HISTORY_SIZE
  THEN [st EXCEPT !.outside = TRUE]
  ELSE
  [st EXCEPT
     !.history = SubSeq(st.history, 1, st.pos)
                   \o SubSeq(st.history, referencePos + 1, referencePos + n)
                   \o SubSeq(st.history, st.pos + n + 1, HISTORY_SIZE),
     !.pos = st.pos + n]

\* fault: a history one byte shorter when the reference is before its begin
CopyMatchShortRing(st, delta, matchLength) ==
  LET referencePos == IF st.pos >= delta THEN st.pos - delta
                      ELSE HISTORY_SIZE - 1 + st.pos - delta
  IN
  IF st.pos + matchLength < HISTORY_SIZE /\ referencePos + matchLength < HISTORY_SIZE
  THEN IF st.pos >= referencePos + matchLength \/ referencePos >= st.pos + matchLength
       THEN CopyDisjoint(st, referencePos, matchLength)
       ELSE CopyBytes(st, referencePos, matchLength)
  ELSE CopyWrapping(st, referencePos, matchLength)

\* copy a match of matchLength bytes that starts delta bytes back; the sums
\* of the tests are uint32_t sums
CopyMatch(st, delta, matchLength) ==
  LET referencePos == IF st.pos >= delta THEN st.pos - delta
                      ELSE HISTORY_SIZE + st.pos - delta
      writeEnd == (st.pos + matchLength) % Word
      readEnd == (referencePos + matchLength) % Word
  IN
  IF writeEnd < HISTORY_SIZE /\ readEnd < HISTORY_SIZE
  THEN IF st.pos >= readEnd \/ referencePos >= writeEnd
       THEN CopyDisjoint(st, referencePos, matchLength)
       ELSE CopyBytes(st, referencePos, matchLength)
  ELSE CopyWrapping(st, referencePos, matchLength)

\* fault: the sequences of a compressed block without the test of the offset
RECURSIVE DecodeSequencesAnyOffset(_, _, _, _)
DecodeSequencesAnyOffset(f, st, blockOffset, size) ==
  IF blockOffset >= size \/ st.outside \/ st.it > Len(f) \/ ~Now(st) THEN st
  ELSE
    LET token == Cur(f, st)
        lit == IF Shr(token, 4) = 15 THEN ReadLength(f, st.it + 1, 15)
               ELSE <<Shr(token, 4), st.it + 1>>
        numLiterals == lit[1]
        afterLiterals ==
          CopyLiterals(f, [st EXCEPT !.it = lit[2]], numLiterals,
                       ~((st.pos + numLiterals) % Word < HISTORY_SIZE))
        offsetAt == (blockOffset + (lit[2] - st.it) + numLiterals) % Word
    IN
    IF offsetAt = size \/ afterLiterals.outside \/ afterLiterals.it > Len(f)
    THEN afterLiterals
    ELSE
      LET delta == Deref(f, afterLiterals.it) + 256 * Deref(f, afterLiterals.it + 1)
          len == IF Low(token, 4) = 15
                 THEN ReadLength(f, afterLiterals.it + 2, 4 + 15)
                 ELSE <<4 + Low(token, 4), afterLiterals.it + 2>>
      IN
      DecodeSequencesAnyOffset(f,
             CopyMatch([afterLiterals EXCEPT !.it = len[2]], delta, len[1]),
             (offsetAt + 2 + (len[2] - (afterLiterals.it + 2))) % Word, size)

\* the sequences of a compressed block: while (blockOffset < blockSize).
\* blockOffset is a uint32_t; the loop is followed until a store outside
\* history[] or a read outside the memory modelled
RECURSIVE DecodeSequences(_, _, _, _)
DecodeSequences(f, st, blockOffset, size) ==
  IF blockOffset >= size \/ st.outside \/ st.it > Len(f) \/ ~Now(st) THEN st
  ELSE
    LET token == Cur(f, st)
        lit == IF Shr(token, 4) = 15 THEN ReadLength(f, st.it + 1, 15)
               ELSE <<Shr(token, 4), st.it + 1>>
        numLiterals == lit[1]
        afterLiterals ==
          CopyLiterals(f, [st EXCEPT !.it = lit[2]], numLiterals,
                       ~((st.pos + numLiterals) % Word < HISTORY_SIZE))
        offsetAt == (blockOffset + (lit[2] - st.it) + numLiterals) % Word
    IN
    IF offsetAt = size \/ afterLiterals.outside \/ afterLiterals.it > Len(f)
    THEN afterLiterals
    ELSE
      LET delta == Deref(f, afterLiterals.it) + 256 * Deref(f, afterLiterals.it + 1)
          len == IF Low(token, 4) = 15
                 THEN ReadLength(f, afterLiterals.it + 2, 4 + 15)
                 ELSE <<4 + Low(token, 4), afterLiterals.it + 2>>
      IN
      IF delta = 0
      THEN [afterLiterals EXCEPT !.it = afterLiterals.it + 2,
                                 !.err = "invalid offset"]
      ELSE DecodeSequences(f,
             CopyMatch([afterLiterals EXCEPT !.it = len[2]], delta, len[1]),
             (offsetAt + 2 + (len[2] - (afterLiterals.it + 2))) % Word, size)

\* the block size word at the cursor, without bit 31, and whether bit 31 is clear
BlockSizeAt(f, cursor) ==
  Deref(f, cursor) + 256 * Deref(f, cursor + 1) + 65536 * Deref(f, cursor + 2)
    + 16777216 * (Deref(f, cursor + 3) % 128)
IsCompressedAt(f, cursor) == Deref(f, cursor + 3) < 128

\* one block: its size word has been read (st.it is behind it)
DecodeOneBlock(f, st, size, isCompressed, hasBlockChecksum) ==
  LET body == IF isCompressed THEN DecodeSequences(f, st, 0, size)
              ELSE CopyLiterals(f, st, size, TRUE)
  IN  IF body.err = "" /\ ~body.outside /\ body.it <= Len(f) /\ hasBlockChecksum
      THEN [body EXCEPT !.it = body.it + 4, !.skipped = 4]
      ELSE [body EXCEPT !.skipped = 0]

\* fault: the dictionary ID flag read from bit 1 of the flags
DecodeHeadOtherBit(f) ==
  LET isModern == SubSeq(f, 1, 4) = <<4, 34, 77, 24>>
      flags == f[5]
      hasContentSize == Low(Shr(flags, 3), 1) = 1
      hasDictionaryID == Low(Shr(flags, 1), 1) = 1
      numIgnore == 1 + (IF hasContentSize THEN 8 ELSE 0)
                     + (IF hasDictionaryID THEN 4 ELSE 0) + 1
  IN  IF ~isModern THEN [err |-> "invalid signature", it |-> 4, flags |-> 0]
      ELSE IF Shr(flags, 6) # 1
      THEN [err |-> "only LZ4 file format version 1 supported", it |-> 5,
            flags |-> flags]
      ELSE [err |-> "", it |-> 5 + numIgnore, flags |-> flags]

\* fault: the legacy signature passes
DecodeHeadLegacy(f) ==
  LET isModern == SubSeq(f, 1, 4) = <<4, 34, 77, 24>>
      isLegacy == SubSeq(f, 1, 4) = <<2, 33, 76, 24>>
      flags == f[5]
      hasContentSize == Low(Shr(flags, 3), 1) = 1
      hasDictionaryID == Low(flags, 1) = 1
      numIgnore == 1 + (IF hasContentSize THEN 8 ELSE 0)
                     + (IF hasDictionaryID THEN 4 ELSE 0) + 1
  IN  IF ~(isModern \/ isLegacy)
      THEN [err |-> "invalid signature", it |-> 4, flags |-> 0]
      ELSE IF Shr(flags, 6) # 1
      THEN [err |-> "only LZ4 file format version 1 supported", it |-> 5,
            flags |-> flags]
      ELSE [err |-> "", it |-> 5 + numIgnore, flags |-> flags]

\* the frame header: signature, flags, version and the ignored bytes;
\* result [err, it, flags]
DecodeHead(f) ==
  LET isModern == SubSeq(f, 1, 4) = <<4, 34, 77, 24>>
      flags == f[5]
      hasContentSize == Low(Shr(flags, 3), 1) = 1
      hasDictionaryID == Low(flags, 1) = 1
      numIgnore == 1 + (IF hasContentSize THEN 8 ELSE 0)
                     + (IF hasDictionaryID THEN 4 ELSE 0) + 1
  IN  IF ~isModern THEN [err |-> "invalid signature", it |-> 4, flags |-> 0]
      ELSE IF Shr(flags, 6) # 1
      THEN [err |-> "only LZ4 file format version 1 supported", it |-> 5,
            flags |-> flags]
      ELSE [err |-> "", it |-> 5 + numIgnore, flags |-> flags]

\* an empty ring of chain distances
NoChains == Rep(EndOfChain, MaxDistance + 1)
\* the decoder's history before anything is decoded: every cell uninitialized
Uninitialized == -1
NoHistory == Rep(Uninitialized, HISTORY_SIZE)

\* the block loop of unlz4 from the decoder state st to the final dump
RECURSIVE BlockLoop(_, _, _)
BlockLoop(f, st, flags) ==
  IF st.err # "" \/ st.outside \/ st.it > Len(f) \/ ~Now(st) THEN st
  ELSE IF BlockSizeAt(f, st.it) = 0
  THEN [st EXCEPT
          !.it = st.it + 4 + (IF Low(Shr(flags, 2), 1) = 1 THEN 4 ELSE 0),
          !.b = DumpSpanB(st.b, st.ix, SubSeq(st.history, 1, st.pos)),
          !.ix = st.ix + st.pos]
  ELSE BlockLoop(f, DecodeOneBlock(f, [st EXCEPT !.it = st.it + 4],
                                   BlockSizeAt(f, st.it), IsCompressedAt(f, st.it),
                                   Low(Shr(flags, 4), 1) = 1), flags)

\* unlz4 on the frame f with an empty sink: the final decoder state
unlz4(f) ==
  LET h == DecodeHead(f)
      st == [it |-> h.it, pos |-> 0, history |-> NoHistory, b |-> <<>>,
             ix |-> 0, err |-> h.err, outside |-> FALSE, skipped |-> 0]
  IN  BlockLoop(f, st, h.flags)

\* ------------------------------------------------ the frames given to unlz4
\* n different bytes, numbered from k
Fresh(k, n) == SubSeq([j \in 1..n |-> 1 + ((k + j) % 250)], 1, n)

\* a sequence of a compressed block: token, literals, offset, match length
SequenceBytes(literals, delta, matchLength) ==
  TokenBytes(matchLength - MinMatch, Len(literals)) \o literals
    \o MatchBytes(matchLength - MinMatch, delta)
\* the last sequence of a compressed block: token and literals
LastSequence(literals) == TokenBytes(0, Len(literals)) \o literals
\* a block: its size word and its payload
BlockBytes(payload, raw) == SizeBytes(Len(payload), raw) \o payload

\* the signatures: LZ4 frame, legacy frame, and no LZ4 signature
Signature == <<4, 34, 77, 24>>
Legacy == <<2, 33, 76, 24>>
Signatures == {Signature, Legacy, <<4, 34, 77, 25>>}
\* the header: signature, flags, block size byte, content size and dictionary
\* ID when their flags are set, header checksum; fill is the value of the
\* bytes unlz4 does not look at
HeaderBytes(signature, flags, fill) ==
  signature \o <<flags, fill>>
    \o (IF Low(Shr(flags, 3), 1) = 1 THEN Rep(fill, 8) ELSE <<>>)
    \o (IF Low(flags, 1) = 1 THEN Rep(fill, 4) ELSE <<>>) \o <<fill>>
\* the blocks one after the other, each followed by its checksum if any
RECURSIVE BlocksBytes(_, _, _)
BlocksBytes(list, flags, fill) ==
  IF list = <<>> THEN <<>>
  ELSE Head(list) \o (IF Low(Shr(flags, 4), 1) = 1 THEN Rep(fill, 4) ELSE <<>>)
         \o BlocksBytes(Tail(list), flags, fill)
\* a frame: header, blocks, end mark, content checksum if any
FrameBytes(signature, flags, fill, list) ==
  HeaderBytes(signature, flags, fill) \o BlocksBytes(list, flags, fill)
    \o <<0, 0, 0, 0>>
    \o (IF Low(Shr(flags, 2), 1) = 1 THEN Rep(fill, 4) ELSE <<>>)

\* first blocks: literals only, raw and compressed, shorter and longer than
\* the history
FirstLengths == {3, HISTORY_SIZE - 3, HISTORY_SIZE + 2}
FirstBlocks ==
  {BlockBytes(Fresh(0, r), TRUE) : r \in FirstLengths}
    \cup {BlockBytes(LastSequence(Fresh(0, r)), FALSE) : r \in FirstLengths}
\* second blocks: literals, a match, a second match, the last literals; the
\* offsets include 0 and offsets that reach before the block, the lengths
\* include matches longer than their offset and longer than the history
MatchBlocks ==
  {BlockBytes(SequenceBytes(Fresh(100, a), d1, m1)
                \o SequenceBytes(<<>>, d2, m2)
                \o LastSequence(Fresh(200, BlockEndLiterals)), FALSE) :
     a \in {0, 2, 15}, d1 \in {0, 1, 3, 5, MaxDistance},
     m1 \in {MinMatch, 7, HISTORY_SIZE + 3}, d2 \in {1, 2, MaxDistance},
     m2 \in {MinMatch, HISTORY_SIZE + 4}}
\* flags bytes: version 1 with every choice of block checksum, content size,
\* content checksum and dictionary ID, with block independence, and the
\* versions 0, 2 and 3
FlagsBytes ==
  {64 + bc + cs + cc + id : bc \in {0, 16}, cs \in {0, 8}, cc \in {0, 4},
                            id \in {0, 1}}
    \cup {64 + 32, 0, 16, 128, 192 + 8}
Frames ==
  {FrameBytes(Signature, 64, 0, <<x, y>>) : x \in FirstBlocks, y \in MatchBlocks}
    \cup {FrameBytes(sg, fl, fill,
                     <<BlockBytes(Fresh(0, HISTORY_SIZE - 3), TRUE),
                       BlockBytes(SequenceBytes(Fresh(100, 2), 3, 7)
                                    \o LastSequence(Fresh(200, BlockEndLiterals)),
                                  FALSE)>>) :
             sg \in Signatures, fl \in FlagsBytes, fill \in {0, 165}}
    \cup {FrameBytes(Signature, 64, 0, <<>>)}

\* the locals of compress and of unlz4 before their first statement
Idle ==
  /\ it = 0 /\ numRead = 0
  /\ dataZero = 0 /\ dataSize = 0
  /\ lastBlock = 0 /\ nextBlock = 0
  /\ parseDictionary = FALSE
  /\ lastHash = <<>>
  /\ previousHash = NoChains /\ previousExact = NoChains
  /\ owner = Rep(NoLastHash, MaxDistance + 1)
  /\ i = 0 /\ skipMatches = 0 /\ lazyEvaluation = FALSE
  /\ lengths = <<>> /\ distances = <<>>
  /\ compressed = <<>>
  /\ blocks = 0
  /\ dit = 0 /\ history = NoHistory /\ pos = 0
  /\ db = <<>> /\ dix = 0 /\ dflags = 0 /\ dread = 0 /\ derr = ""

\* the state at the call of smallz4::lz4, the arguments being chosen
AtEntry ==
  /\ pc = "start"
  /\ b = entry.b /\ ix = entry.ix
  /\ Idle

\* main: an empty sink, the cursor at 0
Init ==
  /\ input \in Inputs
  /\ maxChainLength \in Levels
  /\ dictionary \in {<<>>, <<0>>}
  /\ entry = [b |-> <<>>, ix |-> 0]
  /\ AtEntry

\* smallz4::lz4 called on a sink that already holds bytes: a cursor at the end
\* of the sink, and a cursor inside a larger sink
Entries ==
  {[b |-> <<>>, ix |-> 0],
   [b |-> <<170, 187, 204>>, ix |-> 3],
   [b |-> Rep(238, 2 * MaxBlockSize), ix |-> 2]}
EntryInputs ==
  {x \in Inputs : Len(x) \in {0, 13, MaxBlockSize + 1,
                              MaxBlockSize + MaxDistance + 2,
                              2 * MaxBlockSize + BlockEndNoMatch + 1}}
InitEntry ==
  /\ input \in EntryInputs
  /\ maxChainLength \in {0, 3, 9}
  /\ dictionary \in {<<>>, <<0>>}
  /\ entry \in Entries
  /\ AtEntry

\* compress: write the frame header, declare the window and the index
WriteHeader ==
  /\ pc = "start"
  /\ b' = DumpSpanB(b, ix, Header)
  /\ ix' = ix + Len(Header)
  /\ parseDictionary' = (dictionary # <<>>)
  /\ pc' = "block"
  /\ UNCHANGED <<input, entry, maxChainLength, dictionary, it, numRead, dataZero,
                 dataSize, lastBlock, nextBlock, lastHash, previousHash,
                 previousExact, owner, i, skipMatches, lazyEvaluation, lengths,
                 distances, compressed, blocks, decVars>>

\* top of the block loop with a dictionary: throw std::runtime_error
ThrowDictionary ==
  /\ pc = "block"
  /\ parseDictionary
  /\ pc' = "threw"
  /\ UNCHANGED <<encVars, decVars>>

\* top of the block loop: read the incoming bytes into the span
Incoming == Len(input) - it

\* "finished reading": leave the block loop
EndOfInput ==
  /\ pc = "block"
  /\ ~parseDictionary
  /\ nextBlock = numRead + Incoming
  /\ dataSize' = dataSize + Incoming
  /\ numRead' = numRead + Incoming
  /\ it' = it + Incoming
  /\ pc' = "sentinel"
  /\ UNCHANGED <<input, entry, maxChainLength, dictionary, b, ix, dataZero, lastBlock,
                 nextBlock, parseDictionary, lastHash, previousHash,
                 previousExact, owner, i, skipMatches, lazyEvaluation, lengths,
                 distances, compressed, blocks, decVars>>

\* fault: blocks of MaxBlockSize - 1 bytes
NextBorderShort == Min(nextBlock + MaxBlockSize - 1, numRead + Incoming)

\* the end of the next block: MaxBlockSize further, not beyond the bytes read
NextBorder == Min(nextBlock + MaxBlockSize, numRead + Incoming)

\* the lookback of a block: the last bytes of the previous block, negated
Lookback ==
  IF uncompressed THEN 0
  ELSE IF dataZero > BlockEndNoMatch THEN -BlockEndNoMatch ELSE -dataZero

\* read the input, determine the block borders and set up the match finder;
\* next is "match", or "trap" when &data[lastBlock - dataZero] is outside the
\* span and the build checks the index
BeginBlock(next) ==
  /\ pc = "block"
  /\ ~parseDictionary
  /\ nextBlock # numRead + Incoming
  /\ dataSize' = dataSize + Incoming
  /\ numRead' = numRead + Incoming
  /\ it' = it + Incoming
  /\ lastBlock' = nextBlock
  /\ nextBlock' = NextBorder
  /\ i' = Lookback
  /\ skipMatches' = 0
  /\ lazyEvaluation' = FALSE
  /\ lengths' = Rep(0, IF uncompressed THEN 0 ELSE nextBlock' - lastBlock')
  /\ distances' = lengths'
  /\ pc' = next
  /\ UNCHANGED <<input, entry, maxChainLength, dictionary, b, ix, dataZero,
                 parseDictionary, lastHash, previousHash, previousExact, owner,
                 compressed, blocks, decVars>>

StartBlock == BeginBlock("match")

\* the block's first byte is outside the span: a build with checked
\* std::span indexing stops here
TrapBlock ==
  /\ BeginBlock("trap")
  /\ ~(lastBlock' - dataZero >= 0 /\ lastBlock' - dataZero < dataSize')

\* one iteration of the match finder loop
MatchStep ==
  /\ pc = "match"
  /\ MatchLoopRuns
  /\ LET r == MatchIteration IN
       /\ lastHash' = r.lastHash
       /\ previousHash' = r.previousHash
       /\ previousExact' = r.previousExact
       /\ owner' = (IF i > 0 /\ In(i + lastBlock) = In(i + lastBlock - 1)
                       /\ At(distances, i - 1) = 1
                       /\ At(lengths, i - 1) > MaxSameLetter
                    THEN owner
                    ELSE Put(owner, Low(i + MaxDistance + 1, WindowBits),
                             i + lastBlock))
       /\ lengths' = r.lengths
       /\ distances' = r.distances
       /\ skipMatches' = r.skipMatches
       /\ lazyEvaluation' = r.lazyEvaluation
  /\ i' = i + 1
  /\ UNCHANGED <<pc, input, entry, maxChainLength, dictionary, b, ix, it, numRead,
                 dataZero, dataSize, lastBlock, nextBlock, parseDictionary,
                 compressed, blocks, decVars>>

\* the hash chain walk reads outside the span: a build with checked
\* std::span indexing stops here
TrapWalk ==
  /\ pc = "match"
  /\ MatchLoopRuns
  /\ WalkOutsideSpan
  /\ pc' = "trap"
  /\ UNCHANGED <<encVars, decVars>>

\* after the match finder loop: the last literals, the costs, the best matches,
\* the output of the block, and the removal of the processed data
FinishBlock ==
  /\ pc = "match"
  /\ ~MatchLoopRuns
  /\ lengths' = Parsed
  /\ compressed' = selectBestMatches(lengths', distances, lastBlock)
  /\ LET useCompression == Len(compressed') < blockSize /\ ~uncompressed
         numBytes == IF useCompression THEN Len(compressed') ELSE blockSize
         payload == IF useCompression THEN compressed'
                    ELSE InputBytes(lastBlock, numBytes)
     IN  /\ b' = DumpSpanB(DumpSize(b, ix, SizeBytes(numBytes, ~useCompression)),
                           ix + 4, payload)
         /\ ix' = ix + 4 + numBytes
  /\ IF dataSize > MaxDistance
     THEN /\ dataZero' = dataZero + (dataSize - MaxDistance)
          /\ dataSize' = MaxDistance
     ELSE UNCHANGED <<dataZero, dataSize>>
  /\ i' = Max(i, n_matches)
  /\ blocks' = blocks + 1
  /\ pc' = "block"
  /\ UNCHANGED <<input, entry, maxChainLength, dictionary, it, numRead, lastBlock,
                 nextBlock, parseDictionary, lastHash, previousHash,
                 previousExact, owner, skipMatches, lazyEvaluation, distances, decVars>>

\* the loop "last bytes are always literals" starts at a negative i and writes
\* matches.lengths[i] before the vector: a build with checked indexing stops here
TrapTail ==
  /\ pc = "match"
  /\ ~MatchLoopRuns
  /\ i < 0 /\ i < n_matches
  /\ pc' = "trap"
  /\ UNCHANGED <<encVars, decVars>>

\* after the block loop: the end-of-stream sentinel (dump_type of a zero)
WriteSentinel ==
  /\ pc = "sentinel"
  /\ b' = DumpSpanB(b, ix, <<0, 0, 0, 0>>)
  /\ ix' = ix + 4
  /\ pc' = "done"
  /\ UNCHANGED <<input, entry, maxChainLength, dictionary, it, numRead, dataZero,
                 dataSize, lastBlock, nextBlock, parseDictionary, lastHash,
                 previousHash, previousExact, owner, i, skipMatches, lazyEvaluation,
                 lengths, distances, compressed, blocks, decVars>>

\* main: the compressed bytes handed to unlz4 (compressed.resize(ix))
Frame == SubSeq(b, entry.ix + 1, ix)
\* the memory from it on: the frame and what lies behind end in the sink
Memory == SubSeq(b, entry.ix + 1, Len(b))

\* the decoder state as a record, and the variables set from one
DecoderState ==
  [it |-> dit, pos |-> pos, history |-> history, b |-> db, ix |-> dix, err |-> "",
   outside |-> FALSE, skipped |-> 0]
SetDecoder(st) ==
  /\ dit' = st.it
  /\ pos' = st.pos
  /\ history' = st.history
  /\ db' = st.b
  /\ dix' = st.ix

\* unlz4: signature, flags, version, ignored header bytes
DecodeHeader ==
  /\ pc = "done"
  /\ LET h == DecodeHead(Memory) IN
       /\ dit' = h.it
       /\ dflags' = h.flags
       /\ derr' = h.err
       /\ dread' = Min(h.it, 5)
       /\ pc' = IF h.err = "" THEN "decode" ELSE "fatal"
  /\ UNCHANGED <<encVars, history, pos, db, dix>>

\* unlz4: one block of the block loop.  A store outside history[] and a read
\* outside the memory modelled are undefined: the step ends in the trap, where
\* a build with checked accesses stops
DecodeBlock ==
  /\ pc = "decode"
  /\ BlockSizeAt(Memory, dit) # 0
  /\ LET st == DecodeOneBlock(Memory, [DecoderState EXCEPT !.it = dit + 4],
                              BlockSizeAt(Memory, dit), IsCompressedAt(Memory, dit),
                              Low(Shr(dflags, 4), 1) = 1)
     IN  /\ SetDecoder(st)
         /\ derr' = st.err
         /\ dread' = st.it - st.skipped
         /\ pc' = IF st.outside \/ dread' > Len(Memory) THEN "trap"
                  ELSE IF st.err = "" THEN "decode" ELSE "fatal"
  /\ UNCHANGED <<encVars, dflags>>

\* unlz4: the block size 0 ends the loop; skip the content checksum, flush
DecodeEnd ==
  /\ pc = "decode"
  /\ BlockSizeAt(Memory, dit) = 0
  /\ dread' = dit + 4
  /\ dit' = dit + 4 + (IF Low(Shr(dflags, 2), 1) = 1 THEN 4 ELSE 0)
  /\ IF dread' > Len(Memory)
     THEN pc' = "trap" /\ UNCHANGED <<db, dix>>
     ELSE /\ db' = DumpSpanB(db, dix, SubSeq(history, 1, pos))
          /\ dix' = dix + pos
          /\ pc' = "decoded"
  /\ UNCHANGED <<encVars, history, pos, dflags, derr>>

Next ==
  \/ WriteHeader
  \/ ThrowDictionary
  \/ EndOfInput
  \/ StartBlock
  \/ TrapBlock
  \/ MatchStep
  \/ TrapWalk
  \/ FinishBlock
  \/ TrapTail
  \/ WriteSentinel
  \/ DecodeHeader
  \/ DecodeBlock
  \/ DecodeEnd

Spec == Init /\ [][Next]_vars
SpecEntry == InitEntry /\ [][Next]_vars

\* unlz4 called on the bytes of a frame: [it, end) in b, the cursor at the end
InitUnlz4 ==
  /\ b \in Frames /\ ix = Len(b)
  /\ entry = [b |-> <<>>, ix |-> 0]
  /\ input = <<>> /\ maxChainLength = 0 /\ dictionary = <<>>
  /\ pc = "done"
  /\ Idle
NextUnlz4 ==
  \/ DecodeHeader
  \/ DecodeBlock
  \/ DecodeEnd
SpecUnlz4 == InitUnlz4 /\ [][NextUnlz4]_vars

\* unlz4 called on ranges [it, end) that are no complete frame, and on frames
\* whose length fields reach the width of a uint32_t.
\* a frame of a raw block and a compressed block with a match
CutFrame(flags) ==
  FrameBytes(Signature, flags, 165,
             <<BlockBytes(Fresh(0, 3), TRUE),
               BlockBytes(SequenceBytes(Fresh(100, 2), 3, 7)
                            \o LastSequence(Fresh(200, BlockEndLiterals)), FALSE)>>)
\* the frame cut behind its first n bytes, from the flags byte on
Truncated ==
  UNION {{SubSeq(CutFrame(fl), 1, n) : n \in 5..Len(CutFrame(fl))} :
           fl \in {64, 64 + 16 + 4}}
\* a raw block of r bytes and a compressed block whose only sequence declares
\* Word - r + c literals (c < r) and holds m; r + (Word - r + c) is c as a
\* uint32_t
LongLiterals ==
  {FrameBytes(Signature, 64, 0,
              <<BlockBytes(Fresh(0, rc[1]), TRUE),
                BlockBytes(TokenBytes(0, Word - rc[1] + rc[2]) \o Fresh(100, m),
                           FALSE)>>) :
     rc \in {<<3, 0>>, <<10, 0>>, <<10, 5>>}, m \in {2, HISTORY_SIZE + 4}}
\* a raw block of r bytes and a compressed block with a match of Word - c
\* bytes (c <= r) at offset 1, and the last literals
LongMatches ==
  {FrameBytes(Signature, 64, 0,
              <<BlockBytes(Fresh(0, rc[1]), TRUE),
                BlockBytes(SequenceBytes(<<>>, 1, Word - rc[2])
                             \o LastSequence(Fresh(200, BlockEndLiterals)), FALSE)>>) :
     rc \in {<<3, 1>>, <<10, 1>>, <<10, 5>>}}
Ranges == Truncated \cup LongLiterals \cup LongMatches
\* the memory behind end: none, and zero bytes (an end mark, and more)
Behind == {<<>>, <<0, 0, 0, 0>>, Rep(0, 12)}
InitRange ==
  /\ \E x \in Ranges, y \in Behind : b = x \o y /\ ix = Len(x)
  /\ entry = [b |-> <<>>, ix |-> 0]
  /\ input = <<>> /\ maxChainLength = 0 /\ dictionary = <<>>
  /\ pc = "done"
  /\ Idle
SpecRange == InitRange /\ [][NextUnlz4]_vars

\* selectBestMatches as a function of its arguments: decision streams of two
\* sequences and the last literals.  The literal counts and the match lengths
\* are those around which the token and the length bytes change (15 literals,
\* 15 + 255 literals, matches of 19 and of 19 + 255 bytes), the distances need
\* one and two offset bytes; the entries of the table which a match skips hold
\* lengths and distances of their own
LiteralCounts ==
  {0, 1, 14, 15, 16, 15 + MaxLengthCode - 1, 15 + MaxLengthCode,
   15 + 2 * MaxLengthCode + 1}
MatchSizes ==
  {MinMatch, MinMatch + 14, MinMatch + 15, MinMatch + 16,
   MinMatch + 15 + MaxLengthCode - 1, MinMatch + 15 + MaxLengthCode,
   MinMatch + 15 + 2 * MaxLengthCode + 1}
MatchOffsets == {1, 256 + 2, 65535}
LastCounts == {BlockEndLiterals, 15 + 3}
DecisionLengths(n, m, last) ==
  Rep(JustLiteral, n) \o <<m>> \o Rep(MinMatch + 1, m - 1)
    \o <<MinMatch>> \o Rep(MinMatch + 2, MinMatch - 1) \o Rep(0, last)
DecisionDistances(n, m, d, last) ==
  Rep(0, n) \o <<d>> \o Rep(3, m - 1)
    \o <<MaxDistance>> \o Rep(1, MinMatch - 1) \o Rep(0, last)
InitSelect ==
  /\ \E n \in LiteralCounts, m \in MatchSizes, d \in MatchOffsets,
        last \in LastCounts :
       /\ lengths = DecisionLengths(n, m, last)
       /\ distances = DecisionDistances(n, m, d, last)
       /\ input = Fresh(n + m, Len(lengths))
       /\ nextBlock = Len(lengths)
  /\ maxChainLength = MaxChainLength /\ dictionary = <<>>
  /\ entry = [b |-> <<>>, ix |-> 0] /\ b = <<>> /\ ix = 0
  /\ pc = "select"
  /\ it = 0 /\ numRead = 0 /\ dataZero = 0 /\ dataSize = 0 /\ lastBlock = 0
  /\ parseDictionary = FALSE /\ lastHash = <<>>
  /\ previousHash = NoChains /\ previousExact = NoChains
  /\ owner = Rep(NoLastHash, MaxDistance + 1)
  /\ i = 0 /\ skipMatches = 0 /\ lazyEvaluation = FALSE
  /\ compressed = <<>> /\ blocks = 0
  /\ dit = 0 /\ history = NoHistory /\ pos = 0
  /\ db = <<>> /\ dix = 0 /\ dflags = 0 /\ dread = 0 /\ derr = ""
\* the call selectBestMatches(matches, dataBlock, compressed)
Select ==
  /\ pc = "select"
  /\ compressed' = selectBestMatches(lengths, distances, lastBlock)
  /\ pc' = "selected"
  /\ UNCHANGED <<input, entry, maxChainLength, dictionary, b, ix, it, numRead,
                 dataZero, dataSize, lastBlock, nextBlock, parseDictionary,
                 lastHash, previousHash, previousExact, owner, i, skipMatches,
                 lazyEvaluation, lengths, distances, blocks, decVars>>
NextSelect == Select
SpecSelect == InitSelect /\ [][NextSelect]_vars

\* the bytes unlz4 has written (decompressed.resize(ix))
Decoded == SubSeq(db, 1, dix)

\* ------------------------------------------------------------------ claims
\* a call of the encoder that returned, and a block that has just been written
Returned == pc \in {"done", "decode", "decoded", "fatal"}
Emitted == pc = "block" /\ blocks > 0
\* the step that writes a block
WritesBlock == pc = "match" /\ pc' = "block"

C3_RawOrCompressed ==
  [][WritesBlock =>
       LET raw == uncompressed \/ Len(compressed') >= blockSize
           numBytes == ix' - (ix + 4)
       IN  /\ numBytes >= 0
           /\ IsCompressedAt(b', ix) = ~raw
           /\ BlockSizeAt(b', ix) = numBytes
           /\ raw => /\ numBytes = blockSize
                     /\ SubSeq(b', ix + 5, ix') = InputBytes(lastBlock, blockSize)
           /\ ~raw => /\ numBytes = Len(compressed')
                      /\ numBytes < blockSize
                      /\ SubSeq(b', ix + 5, ix') = compressed']_vars

\* a block whose serialized payload is exactly as long as the block was written
\* raw by a compressing level
C3_Witness ==
  /\ Emitted
  /\ maxChainLength = 9
  /\ Len(compressed) = blockSize
  /\ ~IsCompressedAt(b, ix - blockSize - 4)

\* C4: at the start of every block after the first the window holds the
\* MaxDistance bytes before the block and the block:
\* dataZero <= lastBlock - MaxDistance and dataZero + data.size() >= nextBlock.
C4_WindowHoldsBlock ==
  pc = "match" /\ blocks > 0 =>
    /\ dataZero <= lastBlock - MaxDistance
    /\ dataZero + dataSize >= nextBlock

\* ---- the sequences of a written block, read back from the sink
\* the byte at index k (from 0) of f, 0 beyond its end
ByteAt(f, k) == IF k >= 0 /\ k < Len(f) THEN f[k + 1] ELSE 0

\* a length field of the block format at cursor: 255 is added while the byte
\* is 255, then the last byte; result <<length, cursor behind the field>>
RECURSIVE FieldLength(_, _, _)
FieldLength(f, cursor, length) ==
  IF cursor < Len(f) /\ f[cursor + 1] = 255
  THEN FieldLength(f, cursor + 1, length + 255)
  ELSE <<length + ByteAt(f, cursor), cursor + 1>>

\* the sequences of the payload f as the LZ4 block format defines them: for
\* each its literal count, where its literals are in f, the block-relative
\* position at which its match starts, the offset and the length of the match,
\* and whether it is the last one (literals only)
RECURSIVE SequencesOf(_, _, _, _)
SequencesOf(f, cursor, p, acc) ==
  IF cursor >= Len(f) \/ ~Now(acc) THEN acc
  ELSE
    LET token == f[cursor + 1]
        lit == IF token \div 16 = 15 THEN FieldLength(f, cursor + 1, 15)
               ELSE <<token \div 16, cursor + 1>>
        behind == lit[2] + lit[1]
        seq == [literals |-> lit[1], from |-> lit[2], at |-> p + lit[1],
                nibble |-> token % 16, offset |-> 0, length |-> 0,
                last |-> TRUE]
    IN
    IF behind >= Len(f) THEN Append(acc, seq)
    ELSE
      LET len == IF token % 16 = 15 THEN FieldLength(f, behind + 2, 4 + 15)
                 ELSE <<4 + (token % 16), behind + 2>>
          match == [seq EXCEPT
                      !.offset = ByteAt(f, behind) + 256 * ByteAt(f, behind + 1),
                      !.length = len[1], !.last = FALSE]
      IN  SequencesOf(f, len[2], p + lit[1] + len[1], Append(acc, match))

\* the block just written is a compressed one; its payload in the sink
EmittedCompressed == Emitted /\ ~uncompressed /\ Len(compressed) < blockSize
Payload == SubSeq(b, ix - Len(compressed) + 1, ix)
Sequences == SequencesOf(Payload, 0, 0, <<>>)
MatchSequences == {k \in 1..Len(Sequences) : ~Sequences[k].last}

\* C5: every match of a compressed block is at least MinMatch long, its offset
\* is in 1 .. MaxDistance and not larger than the absolute position at which
\* the match starts, and the bytes of the match equal the bytes offset
\* positions earlier.
C5_MatchesValid ==
  EmittedCompressed =>
    \A k \in MatchSequences :
      LET m == Sequences[k]
          start == lastBlock + m.at
      IN  /\ m.length >= MinMatch
          /\ m.offset >= 1 /\ m.offset <= MaxDistance
          /\ m.offset <= start
          /\ start + m.length <= nextBlock
          /\ \A j \in 0..(m.length - 1) : In(start + j) = In(start + j - m.offset)

\* a compressed block of a second block holds a match that reaches back into
\* the first block
C5_Witness ==
  /\ EmittedCompressed
  /\ blocks = 2
  /\ \E k \in MatchSequences :
       /\ Sequences[k].offset > Sequences[k].at
       /\ Sequences[k].length > MinMatch

\* C6: the final sequence of every compressed block is literals only (low
\* nibble of the token 0) and its literals are the last bytes of the block, at
\* least BlockEndLiterals of them.
C6_LiteralTail ==
  EmittedCompressed =>
    /\ Len(Sequences) >= 1
    /\ LET final == Sequences[Len(Sequences)] IN
         /\ final.last
         /\ final.nibble = 0
         /\ final.literals >= BlockEndLiterals
         /\ final.from + final.literals = Len(Payload)
         /\ SubSeq(Payload, final.from + 1, final.from + final.literals)
              = InputBytes(nextBlock - final.literals, final.literals)
    /\ \A k \in 1..(Len(Sequences) - 1) : ~Sequences[k].last

\* a compressed block whose last match ends exactly BlockEndLiterals bytes
\* before the end of the block
C6_Witness ==
  /\ EmittedCompressed
  /\ Len(Sequences) >= 2
  /\ Sequences[Len(Sequences)].literals = BlockEndLiterals

\* C7 as claimed: no match of a compressed block starts at a block-relative
\* position p >= blockSize - BlockEndNoMatch.
C7_NoMatchInLastTwelve ==
  EmittedCompressed =>
    \A k \in MatchSequences : Sequences[k].at < blockSize - BlockEndNoMatch

\* C7 as amended: no match of a compressed block starts at a block-relative
\* position p > blockSize - BlockEndNoMatch (the last eleven bytes).
C7_NoMatchInLastEleven ==
  EmittedCompressed =>
    \A k \in MatchSequences : Sequences[k].at <= blockSize - BlockEndNoMatch

\* a match starts exactly at blockSize - BlockEndNoMatch
C7_Witness ==
  /\ EmittedCompressed
  /\ \E k \in MatchSequences : Sequences[k].at = blockSize - BlockEndNoMatch

\* ---- the smallest serialization of a match table
\* the bytes a length needs beyond the four bits of the token
ExtraBytes(length) == IF length < 15 THEN 0 ELSE 1 + ((length - 15) \div 255)
\* more than any block needs
Unreachable == 1000 * 1000

\* the cheapest match at position p: the offset, the extra length bytes and the
\* rest after the match, over the lengths l .. hi; g0 holds, at index q, the
\* smallest size of the block from position q on when no literal is pending
RECURSIVE CheapestMatch(_, _, _, _, _)
CheapestMatch(l, hi, p, g0, best) ==
  IF l > hi \/ ~Now(best) THEN best
  ELSE CheapestMatch(l + 1, hi, p, g0,
                     Min(best, 2 + ExtraBytes(l - MinMatch) + At(g0, p + l)))

\* row holds, at index r, the smallest size of the block from position p + 1 on
\* when r literals are pending before it; the result is the smallest size of
\* the whole block.  A sequence costs its token, the extra bytes of its literal
\* count, its literals and, with a match, the offset and the extra bytes of the
\* match length; no match ends within the last BlockEndLiterals bytes.
RECURSIVE SmallestFrom(_, _, _, _, _)
SmallestFrom(p, row, g0, lens, n) ==
  IF p < 0 \/ ~Now(row) THEN At(row, 0)
  ELSE
    LET hi == Min(At(lens, p), n - BlockEndLiterals - p)
        match == CheapestMatch(MinMatch, hi, p, g0, Unreachable)
        here == SubSeq([r \in 1..(p + 1) |->
                          Min(At(row, r), 1 + ExtraBytes(r - 1) + (r - 1) + match)],
                       1, p + 1)
    IN  SmallestFrom(p - 1, here, Put(g0, p, At(here, 0)), lens, n)

\* the smallest size of any serialization of a block of n bytes over the match
\* table lens: at each position a literal, or a match of a length from MinMatch
\* to the table's length, and the last BlockEndLiterals bytes literals
OptimalSize(lens, n) ==
  LET end == SubSeq([r \in 1..(n + 1) |-> 1 + ExtraBytes(r - 1) + (r - 1)], 1, n + 1)
  IN  SmallestFrom(n - 1, end, Put(Rep(0, n + 1), n, At(end, 0)), lens, n)

C9_RejectedAtEntry ==
  pc = "threw" => b = <<>> /\ ix = 0

\* C10: the encoder returns without an error for every input without a
\* dictionary: it never stops in the block loop.
C10_EncoderTotal ==
  dictionary = <<>> => pc # "trap"

\* ------------------------------------------------------------------- C11
\* the four-byte word of f at offset k: its low 31 bits and its top bit
WordSize(f, k) ==
  ByteAt(f, k) + 256 * ByteAt(f, k + 1) + 65536 * ByteAt(f, k + 2)
    + 16777216 * (ByteAt(f, k + 3) % 128)
WordTop(f, k) == ByteAt(f, k + 3) >= 128

\* the blocks of f from offset cursor up to the first zero size word, each
\* followed by skip bytes; end is the offset after that word, or -1 when f
\* ends before it
RECURSIVE BlocksOf(_, _, _, _)
BlocksOf(f, cursor, skip, acc) ==
  IF cursor + 4 > Len(f) THEN [blocks |-> acc, end |-> -1]
  ELSE IF WordSize(f, cursor) = 0 /\ ~WordTop(f, cursor)
  THEN [blocks |-> acc, end |-> cursor + 4]
  ELSE BlocksOf(f, cursor + 4 + WordSize(f, cursor) + skip, skip,
                Append(acc, [from |-> cursor + 4, size |-> WordSize(f, cursor),
                             raw |-> WordTop(f, cursor)]))

\* C11: when smallz4::lz4 returns, the cursor has advanced by the length of
\* the frame, the sink holds from the cursor of the call to the cursor one
\* complete frame (header, blocks, sentinel), the sink bytes before the cursor
\* of the call are unchanged, and the input iterator is at the end
C11_FrameEffect ==
  Returned =>
    LET walk == BlocksOf(SubSeq(b, entry.ix + 1, ix), 7, 0, <<>>) IN
      /\ ix >= entry.ix + 11
      /\ SubSeq(b, entry.ix + 1, entry.ix + 7) = <<4, 34, 77, 24, 64, 112, 223>>
      /\ walk.end = ix - entry.ix
      /\ Len(walk.blocks) = blocks
      /\ SubSeq(b, 1, entry.ix) = SubSeq(entry.b, 1, entry.ix)
      /\ it = Len(input)
C11_Witness ==
  /\ pc = "done" /\ blocks = 3 /\ maxChainLength = 9
  /\ entry.ix = 2 /\ Len(entry.b) > 2 /\ Len(b) > Len(entry.b)

RECURSIVE RefCopy(_, _, _)
RefCopy(out, delta, n) ==
  IF n = 0 \/ ~Now(out) THEN out
  ELSE RefCopy(Append(out, IF delta <= Len(out) THEN out[Len(out) - delta + 1]
                           ELSE Uninitialized), delta, n - 1)

\* the sequences seqs[k..] of the payload f appended to r.out; r.within: every
\* offset so far was between 1 and the number of bytes decoded before its
\* match; r.zero: a sequence with offset 0 was met, and r.out ends with the
\* literals of that sequence
RECURSIVE RefSequences(_, _, _, _)
RefSequences(f, seqs, k, r) ==
  IF k > Len(seqs) \/ r.zero \/ ~Now(r) THEN r
  ELSE
    LET q == seqs[k]
        lit == r.out \o SubSeq(f, q.from + 1, q.from + q.literals)
    IN  IF q.last THEN [r EXCEPT !.out = lit]
        ELSE IF q.offset = 0 THEN [r EXCEPT !.out = lit, !.zero = TRUE]
        ELSE RefSequences(f, seqs, k + 1,
               [r EXCEPT !.out = RefCopy(lit, q.offset, q.length),
                         !.within = r.within /\ q.offset <= Len(lit)])

RECURSIVE RefBlocks(_, _, _, _)
RefBlocks(f, list, k, r) ==
  IF k > Len(list) \/ r.zero \/ ~Now(r) THEN r
  ELSE
    LET payload == SubSeq(f, list[k].from + 1, list[k].from + list[k].size) IN
    RefBlocks(f, list, k + 1,
              IF list[k].raw THEN [r EXCEPT !.out = r.out \o payload]
              ELSE RefSequences(payload, SequencesOf(payload, 0, 0, <<>>), 1, r))

\* the header of the frame format: signature, version 01 in the top bits of
\* the flags, and where the optional fields put the first block
WellFormedHeader(f) ==
  Len(f) >= 7 /\ SubSeq(f, 1, 4) = <<4, 34, 77, 24>> /\ f[5] \div 64 = 1
FirstBlockAt(f) ==
  7 + (IF (f[5] \div 8) % 2 = 1 THEN 8 ELSE 0) + (IF f[5] % 2 = 1 THEN 4 ELSE 0)
BlockSkip(f) == IF (f[5] \div 16) % 2 = 1 THEN 4 ELSE 0
FrameBlocks(f) == BlocksOf(f, FirstBlockAt(f), BlockSkip(f), <<>>).blocks
Reference(f) ==
  RefBlocks(f, FrameBlocks(f), 1, [out |-> <<>>, within |-> TRUE, zero |-> FALSE])

\* the matches of block k of the frame f
MatchesOfBlock(f, k) ==
  LET payload == SubSeq(f, FrameBlocks(f)[k].from + 1,
                        FrameBlocks(f)[k].from + FrameBlocks(f)[k].size)
      seqs == SequencesOf(payload, 0, 0, <<>>)
  IN  {seqs[j] : j \in {x \in 1..Len(seqs) : ~seqs[x].last}}

\* C13: for every well-formed frame in which every match offset is at most
\* the number of bytes decoded so far, the ring-buffer decoder ends without
\* error and its output is that of the reference decoder
C13_RingRefinesReference ==
  WellFormedHeader(Frame) /\ Reference(Frame).within /\ ~Reference(Frame).zero =>
    /\ pc # "fatal"
    /\ pc = "decoded" => Decoded = Reference(Frame).out /\ dit = Len(Frame)
\* a frame with a match longer than its offset and than the history, and a
\* match that reaches from the second block into a compressed first block
C13_Witness ==
  /\ pc = "decoded" /\ Reference(Frame).within /\ ~Reference(Frame).zero
  /\ Len(FrameBlocks(Frame)) = 2 /\ ~FrameBlocks(Frame)[1].raw
  /\ \E q \in MatchesOfBlock(Frame, 2) :
       q.offset = 1 /\ q.length > HISTORY_SIZE
  /\ \E q \in MatchesOfBlock(Frame, 2) : q.offset > q.at /\ q.offset > q.length
  /\ Len(Decoded) > 2 * HISTORY_SIZE

\* ------------------------------------------------------------------- C14
\* C14: when the first four bytes are not the signature 04 22 4D 18 (the
\* legacy signature included) unlz4 ends with "invalid signature"; otherwise,
\* when the top two bits of the flags byte are not 01, it ends with the
\* unsupported-version error; the signature is checked first, and in both
\* cases nothing has been written to the output
C14_HeaderValidation ==
  pc # "done" =>
    LET signed == SubSeq(Frame, 1, 4) = <<4, 34, 77, 24>>
        version == Frame[5] \div 64
        unsupported == "only LZ4 file format version 1 supported"
    IN  /\ ~signed =>
             pc = "fatal" /\ derr = "invalid signature" /\ db = <<>> /\ dix = 0
        /\ signed /\ version # 1 =>
             pc = "fatal" /\ derr = unsupported /\ db = <<>> /\ dix = 0
        /\ signed /\ version = 1 => derr \notin {"invalid signature", unsupported}
\* the legacy signature with a flags byte of another version
C14_Witness ==
  /\ pc = "fatal" /\ derr = "invalid signature"
  /\ SubSeq(Frame, 1, 4) = <<2, 33, 76, 24>> /\ Frame[5] \div 64 = 3

\* ------------------------------------------------------------------- C15
\* the bytes unlz4 has decoded: those written to the sink, then those of the
\* history not yet written
Produced == SubSeq(db, 1, dix) \o SubSeq(history, 1, pos)

\* C15: an offset 0 in a compressed block ends unlz4 with "invalid offset"
\* before any byte of that match is copied; 0 is the only rejected value:
\* every other offset is accepted, also one larger than the number of bytes
\* decoded so far
C15_ZeroOffsetRejected ==
  WellFormedHeader(Frame) =>
    /\ derr = "invalid offset" =>
         pc = "fatal" /\ Reference(Frame).zero /\ Produced = Reference(Frame).out
    /\ Reference(Frame).zero => pc # "decoded"
    /\ ~Reference(Frame).zero => pc # "fatal"
\* an offset 0 after two literals, in the second block of a frame whose first
\* block has filled the history once
C15_Witness ==
  /\ pc = "fatal" /\ derr = "invalid offset"
  /\ dix = HISTORY_SIZE /\ pos = 4
  /\ Produced = Reference(Frame).out

\* ------------------------------------------------------------------- C16
\* the flags of the frame f as the frame format defines them
HasBlockChecksum(f) == (f[5] \div 16) % 2 = 1
HasContentSize(f) == (f[5] \div 8) % 2 = 1
HasContentChecksum(f) == (f[5] \div 4) % 2 = 1
HasDictionaryID(f) == f[5] % 2 = 1

\* the offsets of the bytes of f that hold the block-maximum-size byte, the
\* content size, the dictionary ID, the header checksum, the block checksums
\* and the content checksum
Optional(f) ==
  LET walk == BlocksOf(f, FirstBlockAt(f), BlockSkip(f), <<>>) IN
  (5 .. FirstBlockAt(f) - 1)
    \cup UNION {(walk.blocks[k].from + walk.blocks[k].size) ..
                 (walk.blocks[k].from + walk.blocks[k].size + BlockSkip(f) - 1) :
                 k \in 1..Len(walk.blocks)}
    \cup (IF HasContentChecksum(f) THEN walk.end .. (walk.end + 3) ELSE {})
\* the frame that differs from f in those bytes only: all of them 0
Canonical(f) ==
  SubSeq([k \in 1..Len(f) |-> IF k - 1 \in Optional(f) THEN 0 ELSE f[k]], 1, Len(f))

\* C16: unlz4 verifies no checksum and ignores the optional header fields:
\* the first block-size word is read at offset 7 + 8 * hasContentSize
\* + 4 * hasDictionaryID, four bytes are skipped after each block exactly
\* when hasBlockChecksum and after the end mark exactly when
\* hasContentChecksum, and the output is that of the frame with the same
\* flags whose block-maximum-size byte, content size, dictionary ID and
\* checksums are all different (here: zero)
C16_OptionalFieldsIgnored ==
  [][/\ pc = "done" /\ pc' = "decode" =>
          dit' = 7 + (IF HasContentSize(Frame) THEN 8 ELSE 0)
                   + (IF HasDictionaryID(Frame) THEN 4 ELSE 0)
     /\ pc = "decode" /\ pc' = "decode" =>
          dit' = dit + 4 + WordSize(Frame, dit)
                   + (IF HasBlockChecksum(Frame) THEN 4 ELSE 0)
     /\ pc = "decode" /\ pc' = "decoded" =>
          /\ dit' = dit + 4 + (IF HasContentChecksum(Frame) THEN 4 ELSE 0)
          /\ dit' = Len(Frame)
          /\ unlz4(Canonical(Frame)).err = ""
          /\ Decoded' = SubSeq(unlz4(Canonical(Frame)).b, 1,
                               unlz4(Canonical(Frame)).ix)
     /\ pc' = "fatal" => derr' = unlz4(Canonical(Frame)).err]_vars
\* a frame with all four flags whose optional bytes are not zero
C16_Witness ==
  /\ pc = "decoded" /\ Frame[5] = 64 + 16 + 8 + 4 + 1
  /\ Frame # Canonical(Frame)
  /\ Cardinality(Optional(Frame)) = 1 + 8 + 4 + 1 + 4 + 4 + 4
  /\ Len(Decoded) > HISTORY_SIZE

\* ------------------------------------------------------------------- C17
\* the only block of "Hello World. Hello World!" at the default
\* maxChainLength has been written
HelloWorldWritten ==
  Emitted /\ input = HelloWorld /\ maxChainLength = MaxChainLength

\* C17 as claimed: the frame of "Hello World. Hello World!" holds a single
\* compressed block in which the second "Hello World" is one match of length
\* 12 at offset 13, and the last sequence holds the literal "!"
C17_MatchOfTwelve ==
  HelloWorldWritten =>
    /\ blocks = 1 /\ nextBlock = Len(input) /\ EmittedCompressed
    /\ \E k \in MatchSequences :
         Sequences[k].offset = 13 /\ Sequences[k].length = 12
    /\ Sequences[Len(Sequences)].last
    /\ Sequences[Len(Sequences)].literals = 1

\* C17 amended: the frame of "Hello World. Hello World!" holds a single
\* compressed block of two sequences: the literals "Hello World. " with a
\* match of length 7 at offset 13 (the "Hello W" of the second occurrence),
\* and the five literals "orld!"
C17_MatchOfSeven ==
  HelloWorldWritten =>
    /\ blocks = 1 /\ nextBlock = Len(input) /\ EmittedCompressed
    /\ Len(Sequences) = 2
    /\ Sequences[1].literals = 13 /\ Sequences[1].at = 13
    /\ Sequences[1].offset = 13 /\ Sequences[1].length = 7
    /\ ~Sequences[1].last
    /\ SubSeq(Payload, Sequences[1].from + 1, Sequences[1].from + 13)
         = SubSeq(HelloWorld, 1, 13)
    /\ Sequences[2].last /\ Sequences[2].literals = BlockEndLiterals
    /\ SubSeq(Payload, Sequences[2].from + 1, Sequences[2].from + 5)
         = <<111, 114, 108, 100, 33>>
C17_Witness ==
  /\ HelloWorldWritten /\ EmittedCompressed
  /\ Payload = <<13 * 16 + 3>> \o SubSeq(HelloWorld, 1, 13) \o <<13, 0>>
                 \o <<5 * 16, 111, 114, 108, 100, 33>>

\* ------------------------------------------------------------------- C18
\* the only block of the run of 0x41 has been written (any compressing
\* maxChainLength), and the frame of the run has been decoded
SelfOverlapWritten == Emitted /\ input = SelfOverlap /\ maxChainLength > 0
SelfOverlapDecoded == pc = "decoded" /\ input = SelfOverlap /\ maxChainLength > 0

\* the block of the run holds two sequences: token 0x1F, the literal 'A',
\* the offset bytes 01 00 and a match of the given length whose length field
\* has overflow bytes; then the literals-only sequence with five 'A'
RunSequences(length) ==
  /\ blocks = 1 /\ nextBlock = Len(input) /\ EmittedCompressed
  /\ Len(Sequences) = 2
  /\ SubSeq(Payload, 1, 4) = <<1 * 16 + 15, 65, 1, 0>>
  /\ Sequences[1].literals = 1 /\ Sequences[1].at = 1
  /\ Sequences[1].offset = 1 /\ ~Sequences[1].last
  /\ Sequences[1].length = length
  /\ Sequences[2].last /\ Sequences[2].literals = BlockEndLiterals
  /\ Sequences[2].from + BlockEndLiterals = Len(Payload)
  /\ SubSeq(Payload, Sequences[2].from, Len(Payload))
       = <<BlockEndLiterals * 16>> \o Rep(65, BlockEndLiterals)

\* C18 as claimed: the run of n bytes 0x41 (n = 1,024 in the claim) is written
\* as one compressed block whose first sequence is token 0x1F, the literal 'A',
\* offset 01 00 and a match of length n - 5 (1019 in the claim), followed by
\* the literals-only sequence with the five-byte tail; the decoder yields the
\* n bytes 0x41.
C18_MatchToTail ==
  /\ SelfOverlapWritten => RunSequences(RunLength - BlockEndLiterals)
  /\ SelfOverlapDecoded => Decoded = Rep(65, RunLength)

\* C18 amended: the match has length n - 6 (1018 for the 1,024 bytes): one
\* literal, the match, and the five literals of the tail are the n bytes.
C18_MatchBeforeTail ==
  /\ SelfOverlapWritten => RunSequences(RunLength - JustLiteral - BlockEndLiterals)
  /\ SelfOverlapDecoded => Decoded = Rep(65, RunLength)
C18_Witness ==
  /\ SelfOverlapDecoded /\ maxChainLength = MaxChainLength
  /\ Decoded = Rep(65, RunLength)
  /\ RunLength - JustLiteral - BlockEndLiterals >= MinMatch + 15
  /\ Len(Frame) = Len(Header) + 4
                    + 4 + ExtraBytes(RunLength - JustLiteral - BlockEndLiterals - MinMatch)
                    + 1 + BlockEndLiterals + 4

\* ------------------------------------------------------------------- C19
\* one iteration of the match loop is taken, at the absolute position Visited
LoopIteration == pc = "match" /\ pc' = "match" /\ i' = i + 1
Visited == i + lastBlock
\* the iteration copies the predecessor's match of a long run of one byte
LongRunShortcut ==
  /\ i > 0 /\ In(Visited) = In(Visited - 1)
  /\ At(distances, i - 1) = 1 /\ At(lengths, i - 1) > MaxSameLetter
\* the iteration has updated the index at Visited: lastHash holds the
\* position, the slot of previousHash holds the distance to the position
\* lastHash held before (EndOfChain when there was none within MaxDistance),
\* the slot of previousExact holds EndOfChain or a distance to four equal bytes
IndexUpdated ==
  LET h == HashOf(Four(Visited))
      slot == (Visited % (MaxDistance + 1)) + 1
      before == LastHashAt(h)
  IN  /\ h \in DOMAIN lastHash' /\ lastHash'[h] = Visited
      /\ previousHash'[slot] =
           (IF before = NoLastHash \/ Visited - before > MaxDistance
            THEN EndOfChain ELSE Visited - before)
      /\ \/ previousExact'[slot] = EndOfChain
         \/ /\ previousExact'[slot] \in 1..MaxDistance
            /\ match4(Visited, Visited - previousExact'[slot])

\* C19 as claimed: the index is updated at every position the match loop
\* visits, also where match finding is skipped (greedy or lazy skip,
\* lookback, long-run shortcut)
C19_IndexedEverywhere == [][LoopIteration => IndexUpdated]_vars

\* C19 amended: the index is updated at every position the match loop
\* visits, also where match finding is skipped by the greedy or lazy skip
\* or in the lookback, except at the positions of the long-run shortcut,
\* where lastHash and both rings are left as they are
C19_IndexedButLongRun ==
  [][LoopIteration =>
       IF LongRunShortcut
       THEN UNCHANGED <<lastHash, previousHash, previousExact>>
       ELSE IndexUpdated]_vars
\* the greedy skip has passed the position before i, which is indexed and
\* chained, and so has the lookback of this second block
C19_Witness ==
  /\ pc = "match" /\ isGreedy /\ blocks = 1 /\ i > 0 /\ skipMatches > 0
  /\ ~lazyEvaluation /\ At(lengths, i - 1) = 0
  /\ LastHashAt(HashOf(Four(Visited - 1))) = Visited - 1
  /\ At(previousExact, (Visited - 1) % (MaxDistance + 1)) # EndOfChain
  /\ At(previousHash, (Visited - 1) % (MaxDistance + 1)) # EndOfChain

\* ------------------------------------------------------------------- C20
\* the distances from p, within MaxDistance, to the earlier offsets with the
\* same first four bytes
ExactDistances(p) ==
  {d \in 1..Min(MaxDistance, p) : match4(p, p - d)}
Nearest(S) == CHOOSE d \in S : \A e \in S : d <= e
\* the offsets reached from p by following the ring exact while the total
\* distance stays within MaxDistance
RECURSIVE ChainFrom(_, _, _, _)
ChainFrom(exact, p, q, acc) ==
  LET d == At(exact, q % (MaxDistance + 1)) IN
  IF d = EndOfChain \/ p - (q - d) > MaxDistance \/ q - d < 0 \/ ~Now(acc)
  THEN acc
  ELSE ChainFrom(exact, p, q - d, acc \cup {q - d})

\* C20: after the index update at position p the slot of p in previousExact
\* is the distance to the most recent earlier offset with the same first four
\* bytes within MaxDistance, and EndOfChain only if there is none; every
\* candidate reached by following previousExact from p starts with the same
\* four bytes as p
C20_NearestExact ==
  [][LoopIteration /\ ~LongRunShortcut =>
       LET d == At(previousExact', Visited % (MaxDistance + 1)) IN
         /\ ExactDistances(Visited) = {} => d = EndOfChain
         /\ ExactDistances(Visited) # {} => d = Nearest(ExactDistances(Visited))
         /\ \A q \in ChainFrom(previousExact', Visited, Visited, {}) :
              match4(Visited, q)]_vars
\* ---------------------------------------------- the reads of one iteration
\* the iteration at Visited reads lastHash and finds a position within
\* MaxDistance: the hash chain walk is taken from LastSeen
LastSeen == LastHashAt(HashOf(Four(Visited)))
WalkTaken ==
  /\ ~LongRunShortcut
  /\ LastSeen # NoLastHash /\ Visited - LastSeen <= MaxDistance
\* previousHash as the walk reads it: the slot of Visited is written before
WalkRing == Put(previousHash, Low(i + MaxDistance + 1, WindowBits), Visited - LastSeen)
WalkResult == HashWalk(Four(Visited), HashOf(Four(Visited)), LastSeen,
                       Visited - LastSeen, WalkRing)
\* the positions whose slot of previousHash the while (true) loop reads
\* ("const Distance next = previousHash[lastHashMatch & MaxDistance]")
RECURSIVE WalkReads(_, _, _, _, _, _)
WalkReads(four, hash, lastHashMatch, distance, prevHash, acc) ==
  LET currentFour == Four(lastHashMatch) IN
  IF currentFour = four \/ hash # HashOf(currentFour) \/ ~Now(acc) THEN acc
  ELSE
    LET next == At(prevHash, Low(lastHashMatch, WindowBits))
        read == acc \cup {lastHashMatch}
    IN
    IF next = EndOfChain \/ distance + next > MaxDistance
       \/ lastHashMatch - next < dataZero
    THEN read
    ELSE WalkReads(four, hash, lastHashMatch - next, distance + next, prevHash,
                   read)
\* the iteration reaches the call of findLongestMatch; previousExact as the
\* call reads it
FinderCalled ==
  /\ WalkTaken /\ WalkResult[1]
  /\ i >= 0 /\ ~(skipMatches > 0 /\ ~lazyEvaluation)
ExactRing == Put(previousExact, Low(i + MaxDistance + 1, WindowBits), WalkResult[2])
\* the candidates of the while loop of findLongestMatch, one record for each
\* pass that gets beyond "chain goes too far back": the position whose slot of
\* chain is read, whether the candidate's bytes are compared (phase 1), and
\* whether it becomes the best match
RECURSIVE ChainTrace(_, _, _, _, _, _, _, _)
ChainTrace(current, stop, chain, distance, total, rlen, stepsLeft, acc) ==
  IF distance = EndOfChain \/ ~Now(acc) THEN acc
  ELSE
    LET totalDistance == total + distance IN
    IF totalDistance > MaxDistance THEN acc
    ELSE
      LET next == At(chain, Low(current - totalDistance, WindowBits))
          atLeast == current + rlen + 1
          pass == [at |-> current - totalDistance, compared |-> FALSE,
                   best |-> FALSE, length |-> 0]
      IN
      IF atLeast > stop THEN Append(acc, pass)
      ELSE
        LET phase1 == Phase1(atLeast - 4, current, totalDistance) IN
        IF phase1 > current
        THEN ChainTrace(current, stop, chain, next, totalDistance, rlen,
                        stepsLeft, Append(acc, [pass EXCEPT !.compared = TRUE]))
        ELSE
          LET phase2 == Phase2Slow(Phase2Fast(atLeast, stop, totalDistance),
                                   stop, totalDistance)
              left == StepsAfter(stepsLeft)
              found == Append(acc, [pass EXCEPT !.compared = TRUE,
                                                !.best = TRUE,
                                                !.length = phase2 - current])
          IN
          IF left = 0 THEN found
          ELSE ChainTrace(current, stop, chain, next, totalDistance,
                          phase2 - current, left, found)
\* the passes of the call of findLongestMatch of this iteration
FinderTrace ==
  ChainTrace(Visited, nextBlock - BlockEndLiterals, ExactRing,
             At(ExactRing, Low(Visited, WindowBits)), 0, JustLiteral,
             maxChainLength, <<>>)

\* ------------------------------------------------------------------- C21
\* the positions whose slot of a ring this iteration reads: of previousHash in
\* the walk, of previousExact in findLongestMatch (first the slot of the
\* position itself)
HashSlotsRead ==
  IF WalkTaken
  THEN WalkReads(Four(Visited), HashOf(Four(Visited)), LastSeen,
                 Visited - LastSeen, WalkRing, {})
  ELSE {}
ExactSlotsRead ==
  IF FinderCalled
  THEN {Visited} \cup {FinderTrace[k].at : k \in 1..Len(FinderTrace)}
  ELSE {}

\* C21: every ring slot an iteration of the match loop reads, in the hash
\* chain walk or in findLongestMatch, is read for a position q that is at most
\* MaxDistance before the position being processed and that is the position
\* which last wrote the slot; the slot index written (from the block-relative
\* i) is the slot index read (from the absolute position).
C21_RingReadsFresh ==
  [][LoopIteration =>
       /\ Low(i + MaxDistance + 1, WindowBits) = Low(Visited, WindowBits)
       /\ \A q \in HashSlotsRead \cup ExactSlotsRead :
            /\ q >= 0 /\ q <= Visited /\ Visited - q <= MaxDistance
            /\ At(owner', Low(q, WindowBits)) = q]_vars
\* an iteration whose walk over a hash collision reads a slot of previousHash
\* and whose call of findLongestMatch follows previousExact over two
\* positions at least
C21_Witness ==
  /\ pc = "match" /\ MatchLoopRuns
  /\ HashSlotsRead # {}
  /\ FinderCalled /\ Len(FinderTrace) >= 2
\* ------------------------------------------------------------------- C22
\* the candidates whose bytes the call of findLongestMatch of this iteration
\* compares with the bytes at the position
Compared == {k \in 1..Len(FinderTrace) : FinderTrace[k].compared}

\* C22: a call of findLongestMatch compares at most maxChainLength candidates
\* of the exact chain with the position (the cap counts every candidate
\* visited).
C22_AtMostCapCandidates ==
  pc = "match" /\ MatchLoopRuns /\ FinderCalled =>
    Cardinality(Compared) <= maxChainLength
\* ------------------------------------------------------------------- C23
\* the input is one block without a run of one byte longer than MaxSameLetter
LongestRun ==
  LET runs == {n \in 1..Len(input) :
                 \E k \in 0..(Len(input) - n) :
                   \A j \in 1..(n - 1) : In(k + j) = In(k)}
  IN  IF runs = {} THEN 0 ELSE CHOOSE n \in runs : \A m \in runs : m <= n
SingleBlockNoRuns ==
  /\ lastBlock = 0 /\ nextBlock = Len(input)
  /\ LongestRun <= MaxSameLetter
\* the number of bytes from p on that equal the bytes d earlier, at most cap
CommonPrefix(p, d, cap) ==
  LET ns == {n \in 0..cap : \A j \in 0..(n - 1) : In(p + j) = In(p + j - d)}
  IN  CHOOSE n \in ns : \A m \in ns : m <= n
\* the longest match available at p, <<length, distance>>: the longest common
\* prefix over the distances 1 .. min(p, MaxDistance), capped at
\* blockSize - BlockEndLiterals - p, with the smallest distance that gives it;
\* <<0, 0>> when there is no distance
LongestAvailable(p) ==
  LET cap == blockSize - BlockEndLiterals - p
      ds == 1..Min(p, MaxDistance)
  IN  IF ds = {} THEN <<0, 0>>
      ELSE LET d == CHOOSE x \in ds :
                      \A y \in ds :
                        \/ CommonPrefix(p, x, cap) > CommonPrefix(p, y, cap)
                        \/ (CommonPrefix(p, x, cap) = CommonPrefix(p, y, cap)
                            /\ x <= y)
           IN  <<CommonPrefix(p, d, cap), d>>

\* C23: with maxChainLength = 65535, on a single-block input without a run
\* longer than MaxSameLetter, the iteration at every position p with
\* p + 12 <= blockSize leaves in the match table the longest match available
\* at p with the smallest distance that gives it when that match has at least
\* MinMatch bytes, and no match otherwise.
C23_LongestMatch ==
  [][LoopIteration /\ maxChainLength = MaxChainLength /\ SingleBlockNoRuns =>
       LET longest == LongestAvailable(i) IN
         IF longest[1] >= MinMatch
         THEN /\ FinderCalled
              /\ At(lengths', i) = longest[1]
              /\ At(distances', i) = longest[2]
         ELSE /\ ~FinderCalled
              /\ At(lengths', i) < MinMatch]_vars
\* the iteration at a position whose longest match is not the nearest
\* candidate: a shorter match of at least MinMatch bytes is nearer
C23_Witness ==
  /\ pc = "match" /\ MatchLoopRuns /\ maxChainLength = MaxChainLength
  /\ SingleBlockNoRuns /\ FinderCalled
  /\ LET longest == LongestAvailable(i)
         cap == blockSize - BlockEndLiterals - i
     IN  /\ longest[1] > MinMatch
         /\ \E d \in 1..(longest[2] - 1) :
              CommonPrefix(i, d, cap) \in MinMatch..(longest[1] - 1)
\* ------------------------------------------------------------------- C24
\* findLongestMatch was invoked at the block-relative position k before i: the
\* match table holds a length there which the long-run shortcut did not write
ShortcutAt(k) ==
  /\ k > 0 /\ In(lastBlock + k) = In(lastBlock + k - 1)
  /\ At(distances, k - 1) = 1 /\ At(lengths, k - 1) > MaxSameLetter
InvokedAt(k) == At(lengths, k) # 0 /\ ~ShortcutAt(k)
\* the match finder returned a match at k
FoundAt(k) == InvokedAt(k) /\ At(lengths, k) >= MinMatch
\* the position of this iteration has an exact predecessor: findLongestMatch
\* has a chain to follow
HasExact == WalkTaken /\ WalkResult[1]

\* C24: after the match finder returned a match of length l at position k, in
\* greedy mode findLongestMatch is not invoked at k+1 .. k+l-1 and is invoked
\* again at k+l; in lazy mode it is invoked at k+1 and not at k+2 .. k+l-1
\* (k not being itself the position looked at after a match).
C24_SkipAfterMatch ==
  [][LoopIteration /\ i >= 0 =>
       /\ isGreedy =>
            \A k \in 0..(i - 1) :
              FoundAt(k) =>
                /\ i < k + At(lengths, k) => ~FinderCalled
                /\ i = k + At(lengths, k) /\ HasExact /\ ~LongRunShortcut
                     => FinderCalled
       /\ isLazy =>
            \A k \in 0..(i - 1) :
              FoundAt(k) /\ (k = 0 \/ ~FoundAt(k - 1)) =>
                /\ i = k + 1 /\ HasExact /\ ~LongRunShortcut => FinderCalled
                /\ i > k + 1 /\ i < k + At(lengths, k) => ~FinderCalled]_vars
\* ------------------------------------------------------------------- C25
\* the match loop of the block is over and estimateCosts is about to run on
\* the match table; its result
CostsRun ==
  /\ pc = "match" /\ ~MatchLoopRuns
  /\ n_matches > BlockEndNoMatch /\ maxChainLength > ShortChainsGreedy
Estimated == estimateCosts(TailLiterals, distances)
\* the positions of the backward loop, and those of its general loop (not the
\* branch for long self-referencing matches)
CostPositions == 0..(n_matches - 1 - BlockEndLiterals)
GeneralPositions ==
  {p \in CostPositions :
     ~(At(TailLiterals, p) >= MaxSameLetter /\ At(distances, p) = 1)}
\* the literals that follow p up to the next match chosen (or to the end of
\* the block), p included
RECURSIVE LiteralRun(_, _)
LiteralRun(chosen, p) ==
  IF p >= Len(chosen) THEN 0
  ELSE IF p > Len(chosen) - 1 - BlockEndLiterals THEN Len(chosen) - p
  ELSE IF At(chosen, p) # JustLiteral THEN 0
  ELSE 1 + LiteralRun(chosen, p + 1)
\* the cost of a literal at p: one byte, and one more when the run of literals
\* it starts needs one more length byte; est is the result of estimateCosts
LiteralCost(est, p) ==
  LET run == 1 + LiteralRun(est.lengths, p + 1) IN
  At(est.cost, p + 1) + 1 + (IF run >= 15 /\ (run - 15) % 255 = 0 THEN 1 ELSE 0)
\* the cost of a match of length l at p: token, offset, length bytes
MatchCost(est, p, l) == At(est.cost, p + l) + 3 + ExtraBytes(l - MinMatch)
\* the match lengths allowed at p by the table, and the cheapest of them
MatchLengths(table, p) == MinMatch..At(table, p)
CheapestLengths(est, table, p) ==
  {l \in MatchLengths(table, p) :
     \A m \in MatchLengths(table, p) : MatchCost(est, p, l) <= MatchCost(est, p, m)}

\* C25: at each position of the general loop of estimateCosts, if some match
\* length l in MinMatch .. length[p] costs no more than the literal, the length
\* chosen is the largest l of minimal cost; otherwise the position is a
\* literal.
C25_TieBreak ==
  CostsRun =>
    \A est \in {Estimated} : \A table \in {TailLiterals} :
      \A p \in GeneralPositions :
        IF \E l \in MatchLengths(table, p) :
             MatchCost(est, p, l) <= LiteralCost(est, p)
        THEN /\ At(est.lengths, p) \in CheapestLengths(est, table, p)
             /\ \A l \in CheapestLengths(est, table, p) : l <= At(est.lengths, p)
        ELSE At(est.lengths, p) = JustLiteral
\* a position where two match lengths are the cheapest and cost the same as
\* the literal: the longer of the two is chosen
C25_Witness ==
  /\ CostsRun
  /\ \E est \in {Estimated} : \E table \in {TailLiterals} :
       \E p \in GeneralPositions :
         /\ Cardinality(CheapestLengths(est, table, p)) >= 2
         /\ \E l \in CheapestLengths(est, table, p) :
              MatchCost(est, p, l) = LiteralCost(est, p)
         /\ At(est.lengths, p) > MinMatch
\* ------------------------------------------------------------------- C26
\* the decision stream of a match table: from offset p on, the literals up to
\* the next match, that match and its distance; the last decision has no match
RECURSIVE Decisions(_, _, _, _)
Decisions(lens, dists, p, acc) ==
  LET ahead == {q \in p..(Len(lens) - 1) : At(lens, q) > JustLiteral} IN
  IF ahead = {} \/ ~Now(acc)
  THEN Append(acc, [from |-> p, literals |-> Len(lens) - p, length |-> 0,
                    distance |-> 0])
  ELSE
    LET q == CHOOSE x \in ahead : \A y \in ahead : x <= y IN
    Decisions(lens, dists, q + At(lens, q),
              Append(acc, [from |-> p, literals |-> q - p,
                           length |-> At(lens, q), distance |-> At(dists, q)]))
\* the overflow bytes of a length field of f from cursor on end at the first
\* byte below 255 and add up to sum; the cursor behind them, -1 otherwise
RECURSIVE OverflowEnd(_, _, _)
OverflowEnd(f, cursor, sum) ==
  IF cursor >= Len(f) \/ sum < 0 THEN -1
  ELSE IF f[cursor + 1] = 255 THEN OverflowEnd(f, cursor + 1, sum - 255)
  ELSE IF f[cursor + 1] = sum THEN cursor + 1
  ELSE -1
\* one sequence of the LZ4 block format for the decision d at cursor of f:
\* the token, the literal length bytes, the literals, the offset, the match
\* length bytes; the cursor behind it, -1 if the bytes are not that sequence
SequenceEnd(f, cursor, d, data) ==
  IF cursor < 0 \/ cursor >= Len(f) THEN -1
  ELSE
    LET token == f[cursor + 1]
        high == Min(d.literals, 15)
        low == IF d.length = 0 THEN 0 ELSE Min(d.length - MinMatch, 15)
        lit == IF high = 15 THEN OverflowEnd(f, cursor + 1, d.literals - 15)
               ELSE cursor + 1
        off == lit + d.literals
    IN
    IF token # 16 * high + low \/ lit < 0 \/ off > Len(f) THEN -1
    ELSE IF SubSeq(f, lit + 1, off) # SubSeq(data, d.from + 1, d.from + d.literals)
    THEN -1
    ELSE IF d.length = 0 THEN off
    ELSE IF off + 2 > Len(f) THEN -1
    ELSE IF f[off + 1] + 256 * f[off + 2] # d.distance THEN -1
    ELSE IF low = 15 THEN OverflowEnd(f, off + 2, d.length - MinMatch - 15)
    ELSE off + 2
\* f is the sequences of the decisions ds from k on, starting at cursor
RECURSIVE SequencesAre(_, _, _, _, _)
SequencesAre(f, cursor, ds, k, data) ==
  IF k > Len(ds) THEN cursor = Len(f)
  ELSE LET end == SequenceEnd(f, cursor, ds[k], data) IN
       end >= 0 /\ SequencesAre(f, end, ds, k + 1, data)
RECURSIVE Covered(_, _)
Covered(ds, k) ==
  IF k > Len(ds) THEN 0 ELSE ds[k].literals + ds[k].length + Covered(ds, k + 1)

\* C26: the bytes selectBestMatches writes for a decision stream are, sequence
\* by sequence, the LZ4 encoding of the decisions: the token with the nibbles
\* min(numLiterals, 15) and min(matchLength - 4, 15), the literal overflow
\* bytes (up to the first below 255, summing to numLiterals - 15), the
\* literals, the two offset bytes in little-endian order, the match overflow
\* bytes (summing to matchLength - 19); and the literals and matches of the
\* sequences add up to the block size.
C26_BitExact ==
  pc = "selected" =>
    \A ds \in {Decisions(lengths, distances, 0, <<>>)} :
      /\ SequencesAre(compressed, 0, ds, 1, input)
      /\ Covered(ds, 1) = Len(lengths)
\* a decision stream with 15 + 255 literals before a match of 19 + 255 bytes
\* at a distance above 255
C26_Witness ==
  /\ pc = "selected"
  /\ \A ds \in {Decisions(lengths, distances, 0, <<>>)} :
       /\ Len(ds) = 3
       /\ ds[1].literals = 15 + MaxLengthCode
       /\ ds[1].length = MinMatch + 15 + MaxLengthCode
       /\ ds[1].distance > 255
       /\ SubSeq(compressed, 1, 3) = <<255, 255, 0>>
\* ------------------------------------------------------------------- C27
\* C27: for every block on which estimateCosts runs, the number of bytes
\* selectBestMatches writes for the block is cost[0] + 1 + BlockEndLiterals,
\* cost being the costs estimateCosts computed.
C27_CostExact ==
  [][WritesBlock /\ CostsRun =>
       \A est \in {Estimated} :
         Len(compressed') = At(est.cost, 0) + 1 + BlockEndLiterals]_vars
\* a block parsed by estimateCosts has been written, and one of its sequences
\* holds a literal length byte in front of a match
C27_Witness ==
  /\ Emitted /\ maxChainLength > ShortChainsGreedy /\ n_matches > BlockEndNoMatch
  /\ \A ds \in {Decisions(lengths, distances, 0, <<>>)} :
       \E k \in 1..Len(ds) : ds[k].literals >= 15 /\ ds[k].length > 0
\* ------------------------------------------------------------------- C28
\* an iteration of the lookback: the match loop visits a position of the
\* previous block
LookbackIteration == LoopIteration /\ i < 0
\* the ring slot of the position visited, and the index was already updated
\* at that position by an earlier iteration
VisitedSlot == Low(i + MaxDistance + 1, WindowBits)
IndexedBefore == At(owner, VisitedSlot) = Visited
\* C28 as claimed: the lookback updates the index only at positions of the
\* previous block at which it was not updated yet, so it changes no slot of
\* previousHash or previousExact that the previous block wrote for the same
\* position
C28_LookbackOnlyMissing ==
  [][LookbackIteration =>
       /\ ~IndexedBefore
       /\ LastSeen # Visited]_vars
\* ------------------------------------------------------------------- C29
\* the blocks unlz4 has gone through, and what the reference decoder makes of
\* them: the bytes decoded so far
ConsumedBlocks ==
  LET all == BlocksOf(Memory, FirstBlockAt(Memory), BlockSkip(Memory), <<>>).blocks
      done == {k \in 1..Len(all) :
                 all[k].from + all[k].size + BlockSkip(Memory) <= dit}
  IN  SubSeq(all, 1, Cardinality(done))
DecodedSoFar ==
  RefBlocks(Memory, ConsumedBlocks, 1,
            [out |-> <<>>, within |-> TRUE, zero |-> FALSE]).out
\* C29 as claimed: after the header, at every step of unlz4, 0 <= pos <
\* HISTORY_SIZE; until the end the number of bytes in the sink is a multiple
\* of HISTORY_SIZE and the sink followed by history[0..pos) is the bytes
\* decoded so far; unlz4 ends at a block size word of 0 and then the sink
\* holds the bytes decoded
C29_DecoderInvariant ==
  /\ pc \in {"decode", "decoded", "trap"} => pos >= 0 /\ pos < HISTORY_SIZE
  /\ pc = "decode" =>
       /\ dix % HISTORY_SIZE = 0
       /\ SubSeq(db, 1, dix) \o SubSeq(history, 1, pos) = DecodedSoFar
  /\ pc = "decoded" =>
       /\ BlockSizeAt(Memory, dread - 4) = 0
       /\ dix % HISTORY_SIZE = pos
       /\ SubSeq(db, 1, dix) = DecodedSoFar
\* ------------------------------------------------------------------- C30
\* C30 as claimed: for every range [it, end), truncated frames included, unlz4
\* reads no byte at or behind end: every byte read is one of the bytes of the
\* frame
C30_ReadsInsideRange == dread <= Len(Frame)
====
